---- MODULE Spec2Model ----
(***************************************************************************)
(* State-machine model of the check-rss edge function                      *)
(* (supabase/functions/check-rss/index.ts): the authorization gate, the    *)
(* run ledger, and the orchestrator that fetches feeds, filters items,     *)
(* delivers them to the primary and secondary webhooks and stores rows.    *)
(*                                                                         *)
(* It also covers the delete-news function and the hourly cleanup job,    *)
(* the rate limit of verify-password, and the dashboard's article query.   *)
(*                                                                         *)
(* Time is counted in whole hours since a Berlin-midnight epoch, so the    *)
(* Berlin wall-clock hour is now % 24.  Every await of the handler is one  *)
(* step of one invocation; invocations interleave at those steps.          *)
(***************************************************************************)
EXTENDS Integers, Sequences, FiniteSets, TLC

\* ---------------------------------------------------------------- bounds
MaxInvocations == 2
MaxTime == 2
FirstHour == 18

Invs == 1..MaxInvocations
LastHour == FirstHour + MaxTime

\* ------------------------------------------------------- program constants
RSS_SOURCES == <<"nius", "jungefreiheit", "apollonews", "freilichmagazin">>
SourceKeys == {RSS_SOURCES[k] : k \in 1..Len(RSS_SOURCES)}
\* Property names that the object RSS_SOURCES inherits from Object.prototype;
\* none of the inherited values has a url.
InheritedKeys ==
    {"constructor", "__proto__", "toString", "toLocaleString", "valueOf",
     "hasOwnProperty", "isPrototypeOf", "propertyIsEnumerable",
     "__defineGetter__", "__defineSetter__", "__lookupGetter__", "__lookupSetter__"}
RECENCY_HOURS == 12
CLEANUP_HOURS == 24
TOKEN_TTL_HOURS == 4320

\* The signing secret of the app token (SUPABASE_SERVICE_ROLE_KEY) and the
\* project's JWT secret that signs the anon key.
ServiceRoleKey == "service_role_key"
ProjectJwtSecret == "project_jwt_secret"

\* ------------------------------------------------------------------ tokens
\* A bearer token: the number of dot-separated segments, the decoded middle
\* segment (payload) and the signature.  An HMAC is modelled by the pair
\* (key, signed data): it verifies only under that key over that data.
hmac(key, data) == [key |-> key, data |-> data]

NoToken == [segs |-> 0]
MkToken(payload, sig) == [segs |-> 3, payload |-> payload, sig |-> sig]

AppPayload(exp) == [json |-> TRUE, role |-> "none", iss |-> "none", exp |-> exp]
AnonPayload == [json |-> TRUE, role |-> "anon", iss |-> "supabase", exp |-> 0]
GarbagePayload == [json |-> FALSE, role |-> "none", iss |-> "none", exp |-> 0]

\* verify-password issues the app token at time t with exp = t + 180 days.
generateToken(issuedAt, secret) ==
    MkToken(AppPayload(issuedAt + TOKEN_TTL_HOURS),
            hmac(secret, AppPayload(issuedAt + TOKEN_TTL_HOURS)))

\* The Authorization header: absent, or credentials with or without the
\* "Bearer" scheme in front; getBearerToken returns the credentials of either
\* form and null for an absent or empty header.
NoHeader == [present |-> FALSE]
Header(scheme, token) == [present |-> TRUE, scheme |-> scheme, credentials |-> token]
HeadersOf(tokens) ==
    {IF t = NoToken THEN NoHeader ELSE Header(s, t) : s \in {"Bearer", ""}, t \in tokens}
getBearerToken(authHeader) ==
    IF ~authHeader.present THEN NoToken ELSE authHeader.credentials

\* Faulty variant: a verifier that does not look at exp.
verifyTokenNoExp(token, secret, now) ==
    /\ token.segs = 3
    /\ token.sig = hmac(secret, token.payload)
    /\ token.payload.json

verifyToken(token, secret, now) ==
    /\ token.segs = 3
    /\ token.sig = hmac(secret, token.payload)
    /\ token.payload.json
    /\ ~(token.payload.exp # 0 /\ token.payload.exp < now)

isCronCall(token) ==
    /\ token.segs # 0
    /\ token.segs = 3
    /\ token.payload.json
    /\ token.payload.role = "anon"
    /\ token.payload.iss = "supabase"

\* The tokens that the system itself issued.
AnonKey == MkToken(AnonPayload, hmac(ProjectJwtSecret, AnonPayload))
\* Tokens that verify-password issued: one that expires an hour after the
\* first moment of a behaviour, one issued at that moment.
ExpiringAppTokens ==
    {generateToken(t, ServiceRoleKey) : t \in {FirstHour - TOKEN_TTL_HOURS + 1}}
IssuedAppTokens == ExpiringAppTokens \cup {generateToken(FirstHour, ServiceRoleKey)}
SystemIssued(token) == token = AnonKey

\* Tokens made by somebody who holds no secret.
ForgedAnon == MkToken(AnonPayload, hmac("attacker", AnonPayload))
ForgedApp == MkToken(AppPayload(FirstHour + TOKEN_TTL_HOURS),
                     hmac("attacker", AppPayload(FirstHour + TOKEN_TTL_HOURS)))
\* An expired issued token whose payload was edited and whose signature was kept.
TamperedApp == MkToken(AppPayload(FirstHour + TOKEN_TTL_HOURS),
                       hmac(ServiceRoleKey, AppPayload(FirstHour + 1)))
TwoSegments == [segs |-> 2]
UndecodableApp == MkToken(GarbagePayload, hmac("attacker", GarbagePayload))

Tokens ==
    {NoToken, TwoSegments, AnonKey, ForgedAnon, ForgedApp, TamperedApp, UndecodableApp}
        \cup IssuedAppTokens

\* ----------------------------------------------------------- environment
\* Deno.env: which endpoints are configured (a missing one reads as '').
EnvAll == [WEBHOOK_URL_PRODUCTION |-> TRUE, WEBHOOK_URL_TEST |-> TRUE,
           TEAMS_WEBHOOK_PRODUCTION |-> TRUE, TEAMS_WEBHOOK_TEST |-> TRUE]
EnvProductionOnly == [EnvAll EXCEPT !.WEBHOOK_URL_TEST = FALSE,
                                    !.TEAMS_WEBHOOK_TEST = FALSE]
Envs == {EnvAll, EnvProductionOnly}

\* Faulty variant: every mode is taken to have its endpoint configured.
getWebhookUrlAny(e, mode) == TRUE

getWebhookUrl(e, mode) ==
    IF mode = "test" THEN e.WEBHOOK_URL_TEST ELSE e.WEBHOOK_URL_PRODUCTION

getTeamsWebhookUrl(e, mode) ==
    IF mode = "test" THEN e.TEAMS_WEBHOOK_TEST ELSE e.TEAMS_WEBHOOK_PRODUCTION

\* ------------------------------------------------------------ request body
Links == {"a", "b"}
NoRetry == [id |-> 0, link |-> "none"]

\* The JSON body of the request; "absent" and hasSources = FALSE stand for a
\* missing field (a body that is no JSON at all is the body with every field
\* missing).
EmptyBody == [webhookMode |-> "absent", hasSources |-> FALSE, sources |-> <<>>,
              retryItem |-> NoRetry, teamsEnabled |-> FALSE, teamsMode |-> "absent"]

BodySources == {<<"nius", "jungefreiheit">>, <<"nius", "nius">>,
                <<"bogus">>, <<"bogus", "jungefreiheit">>}
InheritedSources == {<<"constructor">>, <<"__proto__", "nius">>}

RunBodies ==
    {[EmptyBody EXCEPT !.hasSources = TRUE, !.sources = s, !.teamsEnabled = t]
        : s \in BodySources, t \in BOOLEAN}
    \cup {[EmptyBody EXCEPT !.hasSources = TRUE, !.sources = s] : s \in InheritedSources}
    \cup {[EmptyBody EXCEPT !.hasSources = TRUE, !.sources = <<"nius">>,
                            !.webhookMode = "test"],
          [EmptyBody EXCEPT !.hasSources = TRUE, !.sources = <<"nius">>,
                            !.teamsEnabled = TRUE, !.teamsMode = "test"]}
RetryBodies ==
    {[EmptyBody EXCEPT !.retryItem = [id |-> n, link |-> l], !.webhookMode = m]
        : n \in 1..2, l \in {"a"}, m \in {"absent", "test"}}
Bodies == RunBodies \cup RetryBodies

\* Faulty variant: only the configured sources pass the filter.
hasOwn(s) == s \in SourceKeys

\* s in RSS_SOURCES: true of the object's own keys and of the inherited ones.
inRSS_SOURCES(s) == s \in SourceKeys \cup InheritedKeys

\* Deno.serve handler, body parsing: the options of the run.
ParseOptions(body) ==
    [webhookMode |-> IF body.webhookMode = "test" THEN "test" ELSE "production",
     enabledSources |->
        IF body.hasSources /\ Len(body.sources) > 0
        THEN SelectSeq(body.sources, inRSS_SOURCES)
        ELSE RSS_SOURCES,
     retryItem |-> body.retryItem,
     teamsEnabled |-> body.teamsEnabled = TRUE,
     teamsMode |-> IF body.teamsMode = "test" THEN "test" ELSE "production"]

\* ------------------------------------------------------------------ feeds
NoDate == [kind |-> "none", t |-> 0]
BadDate == [kind |-> "invalid", t |-> 0]
DateAt(t) == [kind |-> "date", t |-> t]

\* The text '' where a date text is expected.
EmptyDate == [kind |-> "empty", t |-> 0]

\* An element of an <item> block: absent, or present with its content plain
\* or wrapped in CDATA; the content is a core text (the empty string, or
\* EmptyDate, when there is none) with or without white space around it.
Absent(empty) == [form |-> "absent", pad |-> FALSE, core |-> empty]
Plain(core) == [form |-> "plain", pad |-> FALSE, core |-> core]
CData(core) == [form |-> "cdata", pad |-> FALSE, core |-> core]
Padded(element) == [element EXCEPT !.pad = TRUE]

\* An <item> block of a feed document: its title, link and pubDate elements.
Block(title, link, pubDate) == [title |-> title, link |-> link, pubDate |-> pubDate]

ItemA == Block(Plain("A"), Plain("a"), Absent(EmptyDate))
ItemB == Block(Plain("B"), Plain("b"), Plain(DateAt(FirstHour - RECENCY_HOURS)))
ItemAOld == Block(Plain("A"), Plain("a"), Plain(DateAt(FirstHour - RECENCY_HOURS - 1)))
ItemBBad == Block(Plain("B"), Plain("b"), Plain(BadDate))
ItemNoLink == Block(Plain("A"), Absent(""), Absent(EmptyDate))

\* The feed documents of the model.
Docs == {<<>>, <<ItemA>>, <<ItemA, ItemB>>, <<ItemAOld, ItemBBad>>,
         <<ItemNoLink, ItemB>>, <<ItemA, ItemA>>}

\* regex.exec(itemContent): whether the element is found, and the text of
\* its capture group (match[1] || match[2] || '').
matched(element) == element.form # "absent"
captured(element) == [pad |-> element.pad, core |-> element.core]
trim(text) == text.core

\* The item that parseRSS makes of a block.
parseItem(blk) ==
    [title |-> IF matched(blk.title) THEN trim(captured(blk.title)) ELSE "",
     link |-> trim(captured(blk.link)),
     pubDate |-> IF matched(blk.pubDate) THEN trim(captured(blk.pubDate)) ELSE NoDate]

\* Faulty variant: an item is pushed for every block that has a link element.
parseRSSAnyLink(xml) ==
    LET blocks == SelectSeq(xml, LAMBDA blk : matched(blk.link))
    IN  [k \in 1..Len(blocks) |-> parseItem(blocks[k])]

parseRSS(xml) ==
    LET blocks == SelectSeq(xml, LAMBDA blk :
                      matched(blk.link) /\ trim(captured(blk.link)) # "")
    IN  [k \in 1..Len(blocks) |-> parseItem(blocks[k])]

\* Faulty variant: a date exactly twelve hours old is excluded.
isArticleWithin12HoursStrict(pubDate, now) ==
    IF pubDate.kind \in {"none", "empty"} THEN TRUE
    ELSE IF pubDate.kind = "invalid" THEN FALSE
    ELSE pubDate.t > now - RECENCY_HOURS

isArticleWithin12Hours(pubDate, now) ==
    IF pubDate.kind \in {"none", "empty"} THEN TRUE
    ELSE IF pubDate.kind = "invalid" THEN FALSE
    ELSE pubDate.t >= now - RECENCY_HOURS

\* Faulty variant: a gate that is always open.
isWithinOperatingHoursAlways(now) == TRUE

isWithinOperatingHours(now) ==
    LET hour == now % 24 IN hour >= 7 /\ hour < 20

\* Faulty variant: a filter that ignores the stored links.
newItemsNoDedup(rssItems, existingLinks, now) ==
    SelectSeq(rssItems, LAMBDA item : isArticleWithin12Hours(item.pubDate, now))

newItemsOf(rssItems, existingLinks, now) ==
    SelectSeq(rssItems, LAMBDA item :
        item.link \notin existingLinks /\ isArticleWithin12Hours(item.pubDate, now))

\* ------------------------------------------------------ outbound responses
\* What a fetch resolves to: an HTTP response, or a rejection (network error
\* or the abort of fetchWithTimeout), which has status 0 here.
\* Faulty variant: any answered request counts as a success.
okLoose(response) == response.status >= 200

ok(response) == response.status >= 200 /\ response.status <= 299
thrown(response) == response.status = 0

\* A text is a sequence of words, so that a prefix test is computed.
startsWith(text, prefix) == Len(text) >= 1 /\ text[1] = prefix
WebhookErrorText(status) == <<"Webhook error:", ToString(status)>>

\* JavaScript values that a webhook body can carry in its output field.
\* s is the text of the value: what a text column stores for it.
Undefined == [t |-> "undefined", s |-> <<>>]
Null == [t |-> "null", s |-> <<>>]
Str(words) == [t |-> "string", s |-> words]
Num(n) == [t |-> "number", s |-> <<ToString(n)>>]
EmptyText == Str(<<>>)
Truthy(v) ==
    \/ v.t = "string" /\ v.s # <<>>
    \/ v.t = "number" /\ v # Num(0)
\* Whether a value has the String methods substring and startsWith.
IsString(v) == v.t = "string"

\* A webhook response body: its raw text and what JSON.parse makes of it.
\* shape is "invalid" (JSON.parse throws), "object" (output is its output
\* field) or "array" (output is the output field of its first element).
RawBody(raw) == [raw |-> raw, shape |-> "invalid", output |-> Undefined]
ObjectBody(raw, output) == [raw |-> raw, shape |-> "object", output |-> output]
ArrayBody(raw, output) == [raw |-> raw, shape |-> "array", output |-> output]

\* (TextBodies has every shape of body.)
WebhookBodies == {ObjectBody(<<"{\"output\":\"ok\"}">>, Str(<<"ok">>))}

NoBody == RawBody(<<>>)
WebhookOutcomes ==
    {[status |-> 200, body |-> b] : b \in WebhookBodies}
        \cup {[status |-> 502, body |-> NoBody], [status |-> 0, body |-> NoBody]}
TeamsOutcomes == {[status |-> st, body |-> NoBody] : st \in {200, 502, 0}}
TeamsAnswered == {[status |-> 200, body |-> NoBody]}
Rejected == [status |-> 0, body |-> <<>>]
FeedOutcomes ==
    {[status |-> 200, body |-> d] : d \in Docs}
        \cup {[status |-> 502, body |-> <<>>], Rejected}
\* fetch(source.url): a source that is an inherited property has no url, and
\* the fetch of undefined is rejected without a request.
FetchOutcomes(sourceKey, outcomes) ==
    IF sourceKey \in SourceKeys THEN outcomes ELSE {Rejected}

\* Faulty variant: the result text is always the raw body.
extractRawText(body) == Str(body.raw)

\* The result text of an HTTP-success webhook response.
extractResponseText(body) ==
    IF body.shape = "invalid" THEN Str(body.raw)
    ELSE IF Truthy(body.output) THEN body.output
    ELSE Str(body.raw)

\* ------------------------------------------------- password verification
MAX_ATTEMPTS == 5
LOCKOUT_MINUTES == 15
AppPassword == "secret"

\* A header text is a sequence of characters; <<>> stands for a header that
\* is missing or empty (both are falsy).
Chars(n, c) == [k \in 1..n |-> c]

\* text.split(',')[0]
RECURSIVE firstField(_)
firstField(text) ==
    IF text = <<>> \/ Head(text) = "," THEN <<>>
    ELSE <<Head(text)>> \o firstField(Tail(text))

\* The characters that String.prototype.trim removes: the white space and
\* the line terminators of ECMAScript.  A character that has no escape in a
\* TLA+ string is written as its JavaScript escape (the no-break space is
\* "\\u00A0").
WhiteSpace ==
    {" ", "\t", "\n", "\r", "\f", "\\v", "\\u00A0", "\\uFEFF", "\\u1680",
     "\\u2000", "\\u2001", "\\u2002", "\\u2003", "\\u2004", "\\u2005", "\\u2006",
     "\\u2007", "\\u2008", "\\u2009", "\\u200A", "\\u2028", "\\u2029", "\\u202F",
     "\\u205F", "\\u3000"}

\* text.trim() of a header text
RECURSIVE trimStart(_)
trimStart(text) ==
    IF text # <<>> /\ Head(text) \in WhiteSpace THEN trimStart(Tail(text)) ELSE text
RECURSIVE trimEnd(_)
trimEnd(text) ==
    IF text # <<>> /\ text[Len(text)] \in WhiteSpace
    THEN trimEnd(SubSeq(text, 1, Len(text) - 1)) ELSE text
trimSpaces(text) == trimEnd(trimStart(text))

\* text.slice(0, end)
slice(text, end) == SubSeq(text, 1, IF end < Len(text) THEN end ELSE Len(text))

\* The number of characters of the user-agent that identify a client.
UserAgentPrefix == 50
Unknown == <<"u", "n", "k", "n", "o", "w", "n">>

\* The headers that identify the client: x-forwarded-for (a comma-separated
\* list, the client first), x-real-ip and user-agent.
getClientIP(headers) ==
    IF headers.forwarded # <<>> THEN trimSpaces(firstField(headers.forwarded))
    ELSE IF headers.realIp # <<>> THEN headers.realIp
    ELSE IF slice(headers.userAgent, UserAgentPrefix) # <<>>
    THEN slice(headers.userAgent, UserAgentPrefix)
    ELSE Unknown

\* Requests that carry no address header, from two browsers whose user-agent
\* texts differ only after the first fifty characters.
Browser == Chars(UserAgentPrefix, "M")
NoAddress == [forwarded |-> <<>>, realIp |-> <<>>, userAgent |-> <<>>]
LoginHeaders ==
    {[NoAddress EXCEPT !.userAgent = Browser \o <<"a">>],
     [NoAddress EXCEPT !.userAgent = Browser \o <<"b">>]}

ClientIds == {getClientIP(h) : h \in LoginHeaders}

\* The body of a login request: a JSON object with a password, or no JSON.
LoginBodies ==
    {[json |-> TRUE, password |-> "secret"], [json |-> TRUE, password |-> "guess"],
     [json |-> FALSE, password |-> ""]}

\* rateLimitStore.get(ip) of a client that has no record.
NoRecord == [present |-> FALSE, attempts |-> 0, lastAttempt |-> 0, lockedUntil |-> 0]

\* checkRateLimit at minute t: whether the request is allowed, the seconds
\* to wait, and the store as the call leaves it.
checkRateLimit(store, ip, t) ==
    LET record == store[ip] IN
    IF ~record.present
    THEN [allowed |-> TRUE, retryAfter |-> 0, store |-> store]
    ELSE IF record.lockedUntil > t
    THEN [allowed |-> FALSE, retryAfter |-> (record.lockedUntil - t) * 60, store |-> store]
    ELSE IF record.lockedUntil > 0 /\ record.lockedUntil <= t
    THEN [allowed |-> TRUE, retryAfter |-> 0, store |-> [store EXCEPT ![ip] = NoRecord]]
    ELSE IF record.attempts >= MAX_ATTEMPTS
    THEN [allowed |-> FALSE, retryAfter |-> LOCKOUT_MINUTES * 60,
          store |-> [store EXCEPT ![ip].lockedUntil = t + LOCKOUT_MINUTES]]
    ELSE [allowed |-> TRUE, retryAfter |-> 0, store |-> store]

\* recordAttempt at minute t: the store as the call leaves it.
recordAttempt(store, ip, success, t) ==
    IF success THEN [store EXCEPT ![ip] = NoRecord]
    ELSE [store EXCEPT ![ip] = [present |-> TRUE, attempts |-> store[ip].attempts + 1,
                                lastAttempt |-> t, lockedUntil |-> store[ip].lockedUntil]]

\* The responses of verify-password.
NoAnswer == [status |-> 0, success |-> FALSE, retryAfter |-> 0, token |-> NoToken]
TooManyAttempts(retryAfter) == [NoAnswer EXCEPT !.status = 429, !.retryAfter = retryAfter]
AuthenticationFailed == [NoAnswer EXCEPT !.status = 500]
Rejection == [NoAnswer EXCEPT !.status = 200]
Verified(iat) ==
    [NoAnswer EXCEPT !.status = 200, !.success = TRUE,
                     !.token = generateToken(iat, ServiceRoleKey)]

\* ------------------------------------------------------------ dashboard
DASHBOARD_HOURS == 12

\* The cutoff that queryFn computes at hour t, before it sends the query.
twelveHoursAgo(t) == t - DASHBOARD_HOURS

\* The query of useNewsItems as the store answers it: of the rows it holds,
\* those published at or after the cutoff or without a publication date,
\* except those whose response_text is like 'Webhook error:%' (the order of
\* the rows is left out).
useNewsItems(rows, cutoff) ==
    {row \in rows :
        /\ \/ row.published_at.kind = "none"
           \/ row.published_at.kind = "date" /\ row.published_at.t >= cutoff
        /\ ~startsWith(row.response_text, "Webhook error:")}

\* What NewsCard shows of a row: the error mark and the retry button are
\* rendered for a non-empty text that starts with the sentinel.
NewsCard(row) ==
    LET hasError == startsWith(row.response_text, "Webhook error:")
    IN  [id |-> row.id, hasError |-> row.response_text # <<>> /\ hasError,
         retry |-> row.response_text # <<>> /\ hasError]

\* The stages of a cleanup that is under way.
CleanupStages == {"invoked", "arrived", "deleted", "failed"}
NoCleanups == [stage \in CleanupStages |-> 0]

\* The page before its first query.
NothingFetched == [of |-> {}, cards |-> {}, fetching |-> FALSE, cutoff |-> 0,
                   cleanups |-> NoCleanups]

\* ------------------------------------------------------------- the state
VARIABLES
    now,          \* the clock, in hours
    env,          \* the configured endpoints
    news_items,   \* the article store: rows [id, link, response_text, processed_at,
                  \* published_at]
    removed,      \* the rows that left the store: [id, by, processed_at, at] (history)
    nextRowId,    \* the id the store gives the next inserted row
    rss_runs,     \* the run ledger: rows [id, trigger, finished, success, processed, error]
    loc,          \* per invocation: its position (pc) and its local variables
    resp,         \* per invocation: the HTTP response sent, if any
    obs,          \* per invocation: what it has done so far (history)
    rateLimitStore, \* verify-password: the attempt record of each client
    inflight,     \* verify-password: the requests between their rate-limit check
                  \* and their password comparison, counted by client and body
    signing,      \* verify-password: the requests that wait in generateToken,
                  \* counted by client and by the hour their payload was made
    clock,        \* the minutes past the hour now
    login,        \* verify-password: the response of the latest step of the handler
                  \* (NoAnswer when it sent none), and per client when its lock was
                  \* set and the failed comparisons since its last reset (history)
    dashboard     \* the page: the cards of the last answered query and the rows the
                  \* store held then (history), the query that is under way with its
                  \* cutoff, and the cleanups that are under way

feedVars == <<now, env, news_items, removed, nextRowId, rss_runs, loc, resp, obs>>
loginVars == <<rateLimitStore, inflight, signing, clock, login>>
vars == <<feedVars, loginVars, dashboard>>

pc(i) == loc[i].pc

\* sourceResults, by key: set says whether the object has the key as its own.
NoSourceResults ==
    [k \in SourceKeys \cup InheritedKeys |-> [set |-> FALSE, processed |-> 0, total |-> 0]]

\* sourceResults[sourceKey] = {processed, total}; an assignment to __proto__
\* goes to the prototype accessor and gives the object no key of its own.
SetSourceResult(sourceResults, sourceKey, processed, total) ==
    IF sourceKey = "__proto__" THEN sourceResults
    ELSE [sourceResults EXCEPT ![sourceKey] =
            [set |-> TRUE, processed |-> processed, total |-> total]]

\* What processCheckRss returns (kind "run", "closed" or "retry") or throws
\* (kind "throw"); fields a kind does not have keep their default.
NoResult == [kind |-> "none", success |-> FALSE, message |-> "", processed |-> 0,
             total_in_feed |-> 0, sources |-> NoSourceResults,
             response_text |-> <<>>, error |-> ""]
Threw(msg) == [NoResult EXCEPT !.kind = "throw", !.error = msg]

NoResp == [status |-> 0, accepted |-> FALSE, body |-> NoResult]
Resp(status, body) == [status |-> status, accepted |-> FALSE, body |-> body]
CronAccepted == [status |-> 200, accepted |-> TRUE,
                 body |-> [NoResult EXCEPT !.kind = "accepted", !.success = TRUE]]
AuthRequired == Resp(401, [NoResult EXCEPT !.kind = "error", !.error = "Authentication required"])
InvalidToken == Resp(401, [NoResult EXCEPT !.kind = "error", !.error = "Invalid or expired token"])

NoOptions == ParseOptions(EmptyBody)

InitLoc == [pc |-> "idle", token |-> NoToken, options |-> NoOptions, isCron |-> FALSE,
            runId |-> 0, existingLinks |-> {}, srcIdx |-> 0, total |-> 0,
            newItems |-> <<>>, itemIdx |-> 0, processedCount |-> 0,
            totalProcessed |-> 0, totalInFeed |-> 0, sourceResults |-> NoSourceResults,
            responseText |-> EmptyText, processedAt |-> 0, result |-> NoResult]

InitObs == [after |-> {}, madeOutside |-> FALSE,
            ledgerInserts |-> 0, ledgerUpdates |-> 0,
            storeReads |-> 0, storeWrites |-> 0, snapshot |-> {},
            feedFetches |-> <<>>, feedFailed |-> {}, offered |-> {},
            primaryPosts |-> [l \in Links |-> 0], delivered |-> [l \in Links |-> 0],
            teamsPosts |-> {}, teamsFailed |-> {}, insertTried |-> {}, inserted |-> {},
            storeFailed |-> {}, badDated |-> {}, pendingBody |-> NoBody,
            doc |-> <<>>, insertedEarlier |-> {}]

InflightKinds == [ip : ClientIds, body : LoginBodies]
SigningKinds == [ip : ClientIds, iat : FirstHour..LastHour]
NoLoginHistory == [last |-> NoAnswer,
                   lockSetAt |-> [ip \in ClientIds |-> 0],
                   failed |-> [ip \in ClientIds |-> 0]]

InitLoginVars ==
    /\ rateLimitStore = [ip \in ClientIds |-> NoRecord]
    /\ inflight = [k \in InflightKinds |-> 0]
    /\ signing = [k \in SigningKinds |-> 0]
    /\ clock = 0
    /\ login = NoLoginHistory

\* The stores that earlier runs can have left: empty, or one delivered item.
InitStores == {{}, {[id |-> 1, link |-> "a", response_text |-> <<"ok">>,
                     processed_at |-> FirstHour - 1, published_at |-> NoDate]}}

Init ==
    /\ now = FirstHour
    /\ env \in Envs
    /\ news_items \in InitStores
    /\ removed = {}
    /\ nextRowId = Cardinality(news_items) + 1
    /\ rss_runs = {}
    /\ loc = [i \in Invs |-> InitLoc]
    /\ resp = [i \in Invs |-> NoResp]
    /\ obs = [i \in Invs |-> InitObs]
    /\ InitLoginVars
    /\ dashboard = NothingFetched

\* ----------------------------------------------- steps of processCheckRss
\* All of these take and return an invocation's local record.
SourceKeyOf(l) == l.options.enabledSources[l.srcIdx]
ItemOf(l) == l.newItems[l.itemIdx]

\* The return at the end of a normal run.
Complete(l) ==
    [l EXCEPT !.pc = "logRunFinish", !.total = 0, !.newItems = <<>>, !.itemIdx = 0,
              !.processedCount = 0, !.responseText = EmptyText,
              !.result = [NoResult EXCEPT !.kind = "run", !.success = TRUE,
                                          !.message = "Processed",
                                          !.processed = l.totalProcessed,
                                          !.total_in_feed = l.totalInFeed,
                                          !.sources = l.sourceResults]]

\* The next iteration of the loop over the enabled sources.
NextSource(l) ==
    IF l.srcIdx < Len(l.options.enabledSources)
    THEN [l EXCEPT !.pc = "fetch", !.srcIdx = @ + 1, !.total = 0, !.newItems = <<>>,
                   !.itemIdx = 0, !.processedCount = 0, !.responseText = EmptyText]
    ELSE Complete(l)

\* A source that failed or is empty: reported as {processed: 0, total: 0}.
SkipSource(l) ==
    NextSource([l EXCEPT !.sourceResults = SetSourceResult(@, SourceKeyOf(l), 0, 0)])

\* The end of the loop over a source's new items.
EndSource(l) ==
    NextSource([l EXCEPT !.sourceResults =
                            SetSourceResult(@, SourceKeyOf(l), l.processedCount, l.total),
                         !.totalProcessed = @ + l.processedCount])

\* The next iteration of the loop over the new items.
AfterItem(l) ==
    IF l.itemIdx < Len(l.newItems)
    THEN [l EXCEPT !.pc = "post", !.itemIdx = @ + 1, !.responseText = EmptyText]
    ELSE EndSource(l)

\* Faulty variant: a failed delivery is stored with an error text.
DeliveryFailedStore(l, response) ==
    [l EXCEPT !.pc = "insert", !.responseText = Str(WebhookErrorText(response.status))]

\* A primary delivery that was answered with an error status: the item is skipped.
DeliveryFailed(l, response) == AfterItem(l)

\* A primary delivery that was answered with a success status.
\* responseText.substring (the log line) throws for a text that is no string,
\* and the item's catch block then skips the item.
DeliveryOk(l, e, response) ==
    LET responseText == extractResponseText(response.body) IN
    IF ~IsString(responseText) THEN AfterItem(l)
    ELSE [l EXCEPT !.responseText = responseText,
                   !.pc = IF l.options.teamsEnabled
                              /\ getTeamsWebhookUrl(e, l.options.teamsMode)
                          THEN "teams" ELSE "insert"]

\* Faulty variant: a run that got no run id is aborted.
EnterProcessWithRunId(l, e, t) ==
    IF l.runId = 0 \/ ~getWebhookUrl(e, l.options.webhookMode)
    THEN [l EXCEPT !.pc = "logRunFinish", !.result = Threw("Webhook URL not configured")]
    ELSE IF l.options.retryItem # NoRetry
    THEN [l EXCEPT !.pc = "retryPost"]
    ELSE IF ~isWithinOperatingHours(t)
    THEN [l EXCEPT !.pc = "logRunFinish",
                   !.result = [NoResult EXCEPT !.kind = "closed", !.success = TRUE,
                                               !.message = "Outside operating hours (7:00-20:00)"]]
    ELSE [l EXCEPT !.pc = "snapshot"]

\* processCheckRss from its entry to its first await.
EnterProcess(l, e, t) ==
    IF ~getWebhookUrl(e, l.options.webhookMode)
    THEN [l EXCEPT !.pc = "logRunFinish", !.result = Threw("Webhook URL not configured")]
    ELSE IF l.options.retryItem # NoRetry
    THEN [l EXCEPT !.pc = "retryPost"]
    ELSE IF ~isWithinOperatingHours(t)
    THEN [l EXCEPT !.pc = "logRunFinish",
                   !.result = [NoResult EXCEPT !.kind = "closed", !.success = TRUE,
                                               !.message = "Outside operating hours (7:00-20:00)"]]
    ELSE [l EXCEPT !.pc = "snapshot"]

\* processed_at of the row that the next store write carries: the clock is
\* read when the insert or the update is issued, right after the POST before
\* it resolved, and not when the store answers.
Issued(l, t) ==
    IF l.pc \in {"insert", "retryUpdate"} THEN [l EXCEPT !.processedAt = t] ELSE l

\* What an item's feed entry offers a run: it is in the parsed feed and its
\* date is absent or not older than twelve hours.
LinkOf(blk) == IF blk.link.form = "absent" THEN "" ELSE blk.link.core
DateOf(blk) == IF blk.pubDate.form = "absent" THEN EmptyDate ELSE blk.pubDate.core

Offered(doc, t) ==
    {LinkOf(doc[k]) : k \in {n \in 1..Len(doc) :
        /\ LinkOf(doc[n]) # ""
        /\ \/ DateOf(doc[n]).kind = "empty"
           \/ DateOf(doc[n]).kind = "date" /\ DateOf(doc[n]).t + RECENCY_HOURS >= t}}

\* The links that a feed document carries with a date text that is no date.
BadDated(doc) ==
    {LinkOf(doc[k]) : k \in {n \in 1..Len(doc) :
        LinkOf(doc[n]) # "" /\ DateOf(doc[n]).kind = "invalid"}}

StoredLinks == {row.link : row \in news_items}

\* Faulty variant: a snapshot that finds no stored link.
SelectLinksNone(rows) == {}

\* The select of the link column, made a set.
SelectLinks(rows) == {row.link : row \in rows}

\* What the histories record of the world, said without the code's helpers.
HttpSuccess(response) == response.status \in 200..299
InHours(t) == (t % 24) \in 7..19

\* ---------------------------------------------------------------- actions
Done(i) == pc(i) \in {"done", "rejected"}

\* The handler is entered: the bearer token and the body are read.
Receive(i, tokens, bodies) ==
    /\ pc(i) = "idle"
    /\ \A j \in Invs : j < i => pc(j) # "idle"
    /\ \E authHeader \in HeadersOf(tokens), body \in bodies :
        loc' = [loc EXCEPT ![i] = [InitLoc EXCEPT !.pc = "authorizing",
                                                  !.token = getBearerToken(authHeader),
                                                  !.options = ParseOptions(body)]]
    /\ obs' = [obs EXCEPT ![i].after = {j \in Invs : Done(j)},
                          ![i].madeOutside = ~InHours(now)]
    /\ UNCHANGED <<now, env, removed, news_items, nextRowId, rss_runs, resp, loginVars, dashboard>>

\* Faulty variant: the cron answer waits for the run.
RespondOnAcceptAwaited(cron) == NoResp

\* What the handler has responded when it starts the run: a cron call is
\* answered at once and runs in the background, a manual call is answered
\* after the run.
RespondOnAccept(cron) == IF cron THEN CronAccepted ELSE NoResp

\* Cron detection, then the token check of manual calls.
Authorize(i) ==
    /\ pc(i) = "authorizing"
    /\ LET l == loc[i] IN
        IF isCronCall(l.token)
        THEN /\ loc' = [loc EXCEPT ![i] = [l EXCEPT !.pc = "logRunStart", !.isCron = TRUE,
                                                    !.options.teamsEnabled = TRUE]]
             /\ resp' = [resp EXCEPT ![i] = RespondOnAccept(TRUE)]
        ELSE IF l.token.segs = 0
        THEN /\ loc' = [loc EXCEPT ![i] = [l EXCEPT !.pc = "rejected", !.options = NoOptions]]
             /\ resp' = [resp EXCEPT ![i] = AuthRequired]
        ELSE IF ~verifyToken(l.token, ServiceRoleKey, now)
        THEN /\ loc' = [loc EXCEPT ![i] = [l EXCEPT !.pc = "rejected", !.options = NoOptions]]
             /\ resp' = [resp EXCEPT ![i] = InvalidToken]
        ELSE /\ loc' = [loc EXCEPT ![i] = [l EXCEPT !.pc = "logRunStart"]]
             /\ resp' = [resp EXCEPT ![i] = RespondOnAccept(FALSE)]
    /\ UNCHANGED <<now, env, removed, news_items, nextRowId, rss_runs, obs, loginVars, dashboard>>

Trigger(l) ==
    IF l.isCron THEN "cron" ELSE IF l.options.retryItem # NoRetry THEN "retry" ELSE "manual"

\* logRunStart, then processCheckRss up to its first await.
LogRunStart(i, outcomes) ==
    /\ pc(i) = "logRunStart"
    /\ \E dbOk \in outcomes :
        /\ rss_runs' = IF dbOk
                       THEN rss_runs \cup {[id |-> i, trigger |-> Trigger(loc[i]),
                                            finished |-> FALSE, success |-> TRUE,
                                            processed |-> 0, error |-> ""]}
                       ELSE rss_runs
        /\ loc' = [loc EXCEPT ![i] =
                     EnterProcess([loc[i] EXCEPT !.runId = IF dbOk THEN i ELSE 0], env, now)]
    /\ obs' = [obs EXCEPT ![i].ledgerInserts = @ + 1]
    /\ UNCHANGED <<now, env, removed, news_items, nextRowId, resp, loginVars, dashboard>>

\* Faulty variant: a failed select is taken for an empty store.
SelectFailedIgnored(l) == NextSource([l EXCEPT !.existingLinks = {}])

\* A failed select of the stored links is thrown out of processCheckRss.
SelectFailed(l) == [l EXCEPT !.pc = "logRunFinish", !.result = Threw("fetchError")]

\* The select of the stored links.
Snapshot(i, outcomes) ==
    /\ pc(i) = "snapshot"
    /\ \E dbOk \in outcomes :
        IF dbOk
        THEN /\ loc' = [loc EXCEPT ![i] =
                          NextSource([loc[i] EXCEPT !.existingLinks = SelectLinks(news_items)])]
             /\ obs' = [obs EXCEPT ![i].storeReads = @ + 1, ![i].snapshot = StoredLinks]
        ELSE /\ loc' = [loc EXCEPT ![i] = SelectFailed(loc[i])]
             /\ obs' = [obs EXCEPT ![i].storeReads = @ + 1,
                                   ![i].storeFailed = @ \cup {"select"}]
    /\ UNCHANGED <<now, env, removed, news_items, nextRowId, rss_runs, resp, loginVars, dashboard>>

\* The fetch of one source's feed, its parse and the filter of its items.
FetchFeed(i, outcomes) ==
    /\ pc(i) = "fetch"
    /\ \E response \in FetchOutcomes(SourceKeyOf(loc[i]), outcomes) :
        LET l == loc[i]
            rssItems == parseRSS(response.body)
            newItems == newItemsOf(rssItems, l.existingLinks, now)
            counted == [l EXCEPT !.totalInFeed = @ + Len(rssItems), !.total = Len(rssItems)]
        IN  IF thrown(response) \/ ~ok(response)
            THEN /\ loc' = [loc EXCEPT ![i] = SkipSource(l)]
                 /\ obs' = [obs EXCEPT ![i].feedFetches = Append(@, SourceKeyOf(l)),
                                       ![i].feedFailed = @ \cup {SourceKeyOf(l)},
                                       ![i].insertedEarlier = obs[i].inserted]
            ELSE /\ loc' = [loc EXCEPT ![i] =
                              IF Len(rssItems) = 0 THEN SkipSource(counted)
                              ELSE IF Len(newItems) = 0 THEN EndSource(counted)
                              ELSE [counted EXCEPT !.pc = "post", !.newItems = newItems,
                                                   !.itemIdx = 1]]
                 /\ obs' = [obs EXCEPT ![i].feedFetches = Append(@, SourceKeyOf(l)),
                                       ![i].offered = @ \cup Offered(response.body, now),
                                       ![i].badDated = @ \cup BadDated(response.body),
                                       ![i].doc = response.body,
                                       ![i].insertedEarlier = obs[i].inserted]
    /\ UNCHANGED <<now, env, removed, news_items, nextRowId, rss_runs, resp, loginVars, dashboard>>

\* The POST of one new item to the primary webhook.
PostPrimary(i, outcomes) ==
    /\ pc(i) = "post"
    /\ \E response \in outcomes :
        LET l == loc[i]
            link == ItemOf(l).link
        IN  /\ loc' = [loc EXCEPT ![i] =
                  Issued(IF thrown(response) THEN AfterItem(l)
                         ELSE IF ~ok(response) THEN DeliveryFailed(l, response)
                         ELSE DeliveryOk(l, env, response), now)]
            /\ obs' = [obs EXCEPT ![i].primaryPosts[link] = @ + 1,
                                  ![i].delivered[link] =
                                      IF HttpSuccess(response) THEN @ + 1 ELSE @,
                                  ![i].pendingBody =
                                      IF HttpSuccess(response) THEN response.body
                                      ELSE NoBody]
    /\ UNCHANGED <<now, env, removed, news_items, nextRowId, rss_runs, resp, loginVars, dashboard>>

\* The POST to the secondary (Teams) webhook; its outcome is only logged.
\* Faulty variant: a failed secondary POST makes the item be skipped.
AfterTeamsStrict(l, response) ==
    IF response.status = 200 THEN [l EXCEPT !.pc = "insert"] ELSE AfterItem(l)

\* The outcome of the secondary POST is logged, whatever it is.
AfterTeams(l, response) == [l EXCEPT !.pc = "insert"]

PostTeams(i, outcomes) ==
    /\ pc(i) = "teams"
    /\ \E response \in outcomes :
        /\ loc' = [loc EXCEPT ![i] = Issued(AfterTeams(loc[i], response), now)]
        /\ obs' = [obs EXCEPT ![i].teamsPosts = @ \cup {ItemOf(loc[i]).link},
                              ![i].teamsFailed =
                                  IF HttpSuccess(response) THEN @
                                  ELSE @ \cup {ItemOf(loc[i]).link}]
    /\ UNCHANGED <<now, env, removed, news_items, nextRowId, rss_runs, resp, loginVars, dashboard>>

\* Faulty variant: the run forgets the links it has stored.
RememberNothing(existingLinks, link) == existingLinks

\* existingLinks.add(item.link), after an insert that succeeded.
Remember(existingLinks, link) == existingLinks \cup {link}

\* published_at of a new row: null for an item without a date text.
publishedAt(pubDate) == IF pubDate.kind \in {"none", "empty"} THEN NoDate ELSE pubDate

\* The insert of the item's row; link is unique in the store.
InsertItem(i, outcomes) ==
    /\ pc(i) = "insert"
    /\ \E dbOk \in outcomes :
        LET l == loc[i]
            link == ItemOf(l).link
        IN  IF dbOk /\ link \notin StoredLinks
            THEN /\ news_items' = news_items \cup
                        {[id |-> nextRowId, link |-> link,
                          response_text |-> l.responseText.s,
                          processed_at |-> l.processedAt,
                          published_at |-> publishedAt(ItemOf(l).pubDate)]}
                 /\ nextRowId' = nextRowId + 1
                 /\ loc' = [loc EXCEPT ![i] =
                              AfterItem([l EXCEPT !.processedCount = @ + 1,
                                                  !.existingLinks = Remember(@, link),
                                                  !.processedAt = 0])]
                 /\ obs' = [obs EXCEPT ![i].storeWrites = @ + 1,
                                       ![i].insertTried = @ \cup {link},
                                       ![i].inserted = @ \cup {link},
                                       ![i].pendingBody = NoBody]
            ELSE /\ loc' = [loc EXCEPT ![i] = AfterItem([l EXCEPT !.processedAt = 0])]
                 /\ obs' = [obs EXCEPT ![i].storeWrites = @ + 1,
                                       ![i].insertTried = @ \cup {link},
                                       ![i].storeFailed = @ \cup {"insert"},
                                       ![i].pendingBody = NoBody]
                 /\ UNCHANGED <<news_items, nextRowId>>
    /\ UNCHANGED <<now, env, removed, rss_runs, resp, loginVars, dashboard>>

\* The POST of a retry request to the primary webhook.
RetryPost(i, outcomes) ==
    /\ pc(i) = "retryPost"
    /\ \E response \in outcomes :
        LET l == loc[i]
            link == l.options.retryItem.link
        IN  /\ loc' = [loc EXCEPT ![i] =
                  Issued(IF thrown(response)
                         THEN [l EXCEPT !.pc = "logRunFinish", !.result = Threw("retryError")]
                         ELSE [l EXCEPT !.pc = "retryUpdate",
                                        !.responseText =
                                            IF ok(response)
                                            THEN extractResponseText(response.body)
                                            ELSE Str(WebhookErrorText(response.status))],
                         now)]
            /\ obs' = [obs EXCEPT ![i].primaryPosts[link] = @ + 1,
                                  ![i].delivered[link] =
                                      IF HttpSuccess(response) THEN @ + 1 ELSE @,
                                  ![i].pendingBody =
                                      IF HttpSuccess(response) THEN response.body
                                      ELSE NoBody]
    /\ UNCHANGED <<now, env, removed, news_items, nextRowId, rss_runs, resp, loginVars, dashboard>>

\* The update of the retried row, by id.
RetryUpdate(i, outcomes) ==
    /\ pc(i) = "retryUpdate"
    /\ \E dbOk \in outcomes :
        LET l == loc[i]
            isString == IsString(l.responseText)
            isError == startsWith(l.responseText.s, "Webhook error:")
        IN  /\ news_items' =
                  IF dbOk
                  THEN {IF row.id = l.options.retryItem.id
                        THEN [row EXCEPT !.response_text = l.responseText.s,
                                         !.processed_at = l.processedAt]
                        ELSE row
                            : row \in news_items}
                  ELSE news_items
            /\ loc' = [loc EXCEPT ![i] =
                  [l EXCEPT !.pc = "logRunFinish", !.responseText = EmptyText,
                            !.processedAt = 0,
                            !.result = IF ~dbOk THEN Threw("updateError")
                                       ELSE IF ~isString THEN Threw("TypeError")
                                       ELSE [NoResult EXCEPT
                                                !.kind = "retry", !.success = ~isError,
                                                !.message = IF isError THEN "Retry failed"
                                                            ELSE "Retry successful",
                                                !.response_text = l.responseText.s]]]
            /\ obs' = [obs EXCEPT ![i].storeWrites = @ + 1,
                                  ![i].pendingBody = NoBody,
                                  ![i].storeFailed =
                                      IF dbOk THEN @ ELSE @ \cup {"update"}]
    /\ UNCHANGED <<now, env, removed, nextRowId, rss_runs, resp, loginVars, dashboard>>

\* Faulty variant: the finish update is issued without a run id.
UpdatesLedgerAlways(runId) == TRUE

\* logRunFinish returns at once when logRunStart gave it no id.
UpdatesLedger(runId) == runId # 0

\* logRunFinish: the update of the run's ledger row, if it has one.
LogRunFinish(i, outcomes) ==
    /\ pc(i) = "logRunFinish"
    /\ \E dbOk \in outcomes :
        LET l == loc[i]
            failed == l.result.kind = "throw"
        IN  /\ rss_runs' =
                  IF UpdatesLedger(l.runId) /\ dbOk
                  THEN {IF row.id = l.runId
                        THEN [row EXCEPT !.finished = TRUE,
                                         !.success = ~failed /\ l.result.success,
                                         !.processed = IF failed THEN 0 ELSE l.result.processed,
                                         !.error = IF failed THEN l.result.error ELSE ""]
                        ELSE row : row \in rss_runs}
                  ELSE rss_runs
            /\ loc' = [loc EXCEPT ![i].pc = IF l.isCron THEN "done" ELSE "respond"]
            /\ obs' = [obs EXCEPT ![i].ledgerUpdates =
                                    IF UpdatesLedger(l.runId) THEN @ + 1 ELSE @]
    /\ UNCHANGED <<now, env, removed, news_items, nextRowId, resp, loginVars, dashboard>>

\* The response of a manual call: the result, or a 500 for what was thrown.
Respond(i) ==
    /\ pc(i) = "respond"
    /\ resp' = [resp EXCEPT ![i] =
                  IF loc[i].result.kind = "throw"
                  THEN Resp(500, [NoResult EXCEPT !.kind = "error",
                                                  !.error = loc[i].result.error])
                  ELSE Resp(200, loc[i].result)]
    /\ loc' = [loc EXCEPT ![i].pc = "done"]
    /\ UNCHANGED <<now, env, removed, news_items, nextRowId, rss_runs, obs, loginVars, dashboard>>

\* An hour passes.
Tick ==
    /\ now < LastHour
    /\ now' = now + 1
    /\ UNCHANGED <<env, removed, news_items, nextRowId, rss_runs, loc, resp, obs, loginVars, dashboard>>

Step(i) ==
    \/ Receive(i, Tokens, Bodies)
    \/ Authorize(i)
    \/ LogRunStart(i, BOOLEAN)
    \/ Snapshot(i, BOOLEAN)
    \/ FetchFeed(i, FeedOutcomes)
    \/ PostPrimary(i, WebhookOutcomes)
    \/ PostTeams(i, TeamsAnswered)
    \/ InsertItem(i, BOOLEAN)
    \/ RetryPost(i, WebhookOutcomes)
    \/ RetryUpdate(i, BOOLEAN)
    \/ LogRunFinish(i, BOOLEAN)
    \/ Respond(i)

\* One invocation, with every kind of request and outcome, against a store
\* that earlier runs have left; the hour can change between any two steps.
Next == Tick \/ Step(1)

Spec == Init /\ [][Next]_vars

\* ------------------------------------------------- several invocations
\* Manual runs of one source that may overlap, from an empty store.
TwoBodies == {[EmptyBody EXCEPT !.hasSources = TRUE, !.sources = <<"nius">>,
                                !.teamsEnabled = TRUE]}
TwoFeedOutcomes == {[status |-> 200, body |-> d] : d \in {<<ItemA>>, <<ItemB>>}}
TwoWebhookOutcomes ==
    {[status |-> 200, body |-> ObjectBody(<<"{\"output\":\"ok\"}">>, Str(<<"ok">>))],
     [status |-> 502, body |-> NoBody]}
TwoTeamsOutcomes == {[status |-> 200, body |-> NoBody]}

StepTwo(i) ==
    \/ Receive(i, ExpiringAppTokens, TwoBodies)
    \/ Authorize(i)
    \/ LogRunStart(i, {TRUE})
    \/ Snapshot(i, {TRUE})
    \/ FetchFeed(i, TwoFeedOutcomes)
    \/ PostPrimary(i, TwoWebhookOutcomes)
    \/ PostTeams(i, TwoTeamsOutcomes)
    \/ InsertItem(i, {TRUE})
    \/ LogRunFinish(i, {TRUE})
    \/ Respond(i)

NextTwo == Tick \/ \E i \in Invs : StepTwo(i)

InitTwo == Init /\ env = EnvAll /\ news_items = {}

SpecTwo == InitTwo /\ [][NextTwo]_vars

\* ------------------------------------------------- webhook response texts
\* One manual invocation, a run of one source or a retry of row 1, with the
\* secondary notification enabled and every shape of primary response body.
TextBodies ==
    {ObjectBody(<<"{\"output\":\"ok\"}">>, Str(<<"ok">>)),
     ObjectBody(<<"{\"output\":\"\"}">>, Str(<<>>)),
     ObjectBody(<<"{\"output\":5}">>, Num(5)),
     ObjectBody(<<"{\"output\":0}">>, Num(0)),
     ObjectBody(<<"{\"output\":null}">>, Null),
     ObjectBody(<<"{\"result\":1}">>, Undefined),
     ArrayBody(<<"[{\"output\":\"first\"}]">>, Str(<<"first">>)),
     ArrayBody(<<"[]">>, Undefined),
     RawBody(<<"done">>),
     RawBody(<<"Webhook error:", "upstream">>)}
TextWebhookOutcomes ==
    {[status |-> 200, body |-> b] : b \in TextBodies}
        \cup {[status |-> 502, body |-> NoBody], [status |-> 0, body |-> NoBody]}
TextRequests ==
    {[EmptyBody EXCEPT !.hasSources = TRUE, !.sources = <<"nius">>, !.teamsEnabled = TRUE],
     [EmptyBody EXCEPT !.retryItem = [id |-> 1, link |-> "a"], !.teamsEnabled = TRUE]}
TextTokens == IssuedAppTokens \ ExpiringAppTokens
TextFeedOutcomes == {[status |-> 200, body |-> <<ItemA, ItemB>>]}

StepText(i) ==
    \/ Receive(i, TextTokens, TextRequests)
    \/ Authorize(i)
    \/ LogRunStart(i, {TRUE})
    \/ Snapshot(i, {TRUE})
    \/ FetchFeed(i, TextFeedOutcomes)
    \/ PostPrimary(i, TextWebhookOutcomes)
    \/ PostTeams(i, TeamsOutcomes)
    \/ InsertItem(i, {TRUE})
    \/ RetryPost(i, TextWebhookOutcomes)
    \/ RetryUpdate(i, {TRUE})
    \/ LogRunFinish(i, {TRUE})
    \/ Respond(i)

NextText == Tick \/ StepText(1)
InitText == Init /\ env = EnvAll
SpecText == InitText /\ [][NextText]_vars

\* ------------------------------------------------- removal of stored rows
\* The body of a delete-news request: deleteAll, an itemId (0 for none).
DeleteRequests ==
    {[deleteAll |-> TRUE, itemId |-> 0], [deleteAll |-> FALSE, itemId |-> 0]}
        \cup {[deleteAll |-> FALSE, itemId |-> n] : n \in 1..2}

Removal(rows, by, t) ==
    {[id |-> row.id, by |-> by, processed_at |-> row.processed_at, at |-> t] : row \in rows}

\* The delete-news handler: it deletes every row, or the row with the given
\* id, or answers 400; a store error leaves the rows and is answered 500.
Deleted(body, dbOk) ==
    IF ~dbOk THEN {}
    ELSE IF body.deleteAll THEN news_items
    ELSE {row \in news_items : row.id = body.itemId}

DeleteNews(requests, outcomes) ==
    /\ \E body \in requests, dbOk \in outcomes :
        LET gone == Deleted(body, dbOk)
        IN  /\ gone # {}
            /\ news_items' = news_items \ gone
            /\ removed' = removed \cup Removal(gone, "delete-news", now)
    /\ UNCHANGED <<now, env, nextRowId, rss_runs, loc, resp, obs, loginVars, dashboard>>

\* Faulty variant: rows are already dropped when exactly a day old.
ExpiredAtADay(row, t) == row.processed_at <= t - CLEANUP_HOURS

\* The WHERE clause of the cleanup job.
Expired(row, t) == row.processed_at < t - CLEANUP_HOURS

\* The hourly cron job cleanup-old-news-items.
CleanupOldNewsItems ==
    LET gone == {row \in news_items : Expired(row, now)}
    IN  /\ gone # {}
        /\ news_items' = news_items \ gone
        /\ removed' = removed \cup Removal(gone, "cleanup", now)
        /\ UNCHANGED <<now, env, nextRowId, rss_runs, loc, resp, obs, loginVars, dashboard>>

\* One manual invocation (a run of one source or a retry of row 1) on a store
\* that holds a row processed a day ago, with deletion requests and the
\* cleanup job.
OldStores ==
    {{[id |-> 1, link |-> "a", response_text |-> <<"ok">>,
       processed_at |-> FirstHour - CLEANUP_HOURS, published_at |-> NoDate]}}
StoreRequests ==
    {[EmptyBody EXCEPT !.hasSources = TRUE, !.sources = <<"nius">>],
     [EmptyBody EXCEPT !.retryItem = [id |-> 1, link |-> "a"]]}

StepStore(i) ==
    \/ Receive(i, TextTokens, StoreRequests)
    \/ Authorize(i)
    \/ LogRunStart(i, {TRUE})
    \/ Snapshot(i, {TRUE})
    \/ FetchFeed(i, TextFeedOutcomes)
    \/ PostPrimary(i, TwoWebhookOutcomes)
    \/ InsertItem(i, {TRUE})
    \/ RetryPost(i, TwoWebhookOutcomes)
    \/ RetryUpdate(i, {TRUE})
    \/ LogRunFinish(i, {TRUE})
    \/ Respond(i)

NextStore ==
    \/ Tick
    \/ StepStore(1)
    \/ DeleteNews(DeleteRequests, BOOLEAN)
    \/ CleanupOldNewsItems

InitStore ==
    /\ now = FirstHour
    /\ env = EnvAll
    /\ news_items \in OldStores
    /\ removed = {}
    /\ nextRowId = 2
    /\ rss_runs = {}
    /\ loc = [i \in Invs |-> InitLoc]
    /\ resp = [i \in Invs |-> NoResp]
    /\ obs = [i \in Invs |-> InitObs]
    /\ InitLoginVars
    /\ dashboard = NothingFetched

SpecStore == InitStore /\ [][NextStore]_vars

\* ------------------------------------------------- login requests
RECURSIVE BagTotalOver(_, _)
BagTotalOver(bag, S) ==
    IF S = {} THEN 0
    ELSE LET x == CHOOSE y \in S : TRUE IN bag[x] + BagTotalOver(bag, S \ {x})
BagTotal(bag) == BagTotalOver(bag, DOMAIN bag)

\* Up to MaxRequests login requests of one client in flight at a time, with
\* time passing in steps of ClockStep minutes.
MaxRequests == 6
MaxClock == 20
ClockStep == 5

Minute == now * 60 + clock
InflightCount ==
    BagTotalOver(inflight, InflightKinds) + BagTotalOver(signing, SigningKinds)

\* The handler up to `await req.json()`: the rate-limit check, and the 429
\* answer of a request that is not allowed.
LoginArrive ==
    /\ InflightCount < MaxRequests
    /\ \E headers \in LoginHeaders, body \in LoginBodies :
        LET ip == getClientIP(headers)
            rateLimitResult == checkRateLimit(rateLimitStore, ip, Minute)
            kind == [ip |-> ip, body |-> body]
        IN  /\ rateLimitStore' = rateLimitResult.store
            /\ inflight' = IF rateLimitResult.allowed
                           THEN [inflight EXCEPT ![kind] = @ + 1] ELSE inflight
            /\ login' =
                  [login EXCEPT
                     !.last = IF rateLimitResult.allowed THEN NoAnswer
                              ELSE TooManyAttempts(rateLimitResult.retryAfter),
                     !.lockSetAt[ip] =
                        IF rateLimitResult.store[ip].lockedUntil # rateLimitStore[ip].lockedUntil
                            /\ rateLimitResult.store[ip].present
                        THEN Minute ELSE @,
                     !.failed[ip] = IF rateLimitResult.store[ip].present THEN @ ELSE 0]
    /\ UNCHANGED <<feedVars, signing, clock, dashboard>>

\* The handler from `await req.json()` to its next await: a body that is no
\* JSON is answered 500; otherwise the password is compared and the attempt
\* recorded, a wrong password is answered at once, and for the right one
\* the payload of the token is made and the request waits in generateToken
\* (APP_PASSWORD and SUPABASE_SERVICE_ROLE_KEY are configured).
LoginVerify ==
    /\ \E kind \in InflightKinds :
        /\ inflight[kind] > 0
        /\ inflight' = [inflight EXCEPT ![kind] = @ - 1]
        /\ IF ~kind.body.json
           THEN /\ login' = [login EXCEPT !.last = AuthenticationFailed]
                /\ UNCHANGED <<rateLimitStore, signing>>
           ELSE LET isValid == kind.body.password = AppPassword IN
                /\ rateLimitStore' = recordAttempt(rateLimitStore, kind.ip, isValid, Minute)
                /\ signing' = IF isValid
                              THEN [signing EXCEPT ![[ip |-> kind.ip, iat |-> now]] = @ + 1]
                              ELSE signing
                /\ login' = [login EXCEPT !.last = IF isValid THEN NoAnswer ELSE Rejection,
                                          !.failed[kind.ip] = IF isValid THEN 0 ELSE @ + 1]
    /\ UNCHANGED <<feedVars, clock, dashboard>>

\* The handler after `await generateToken(...)`: the token is signed and the
\* request is answered with it.
LoginAnswer ==
    /\ \E kind \in SigningKinds :
        /\ signing[kind] > 0
        /\ signing' = [signing EXCEPT ![kind] = @ - 1]
        /\ login' = [login EXCEPT !.last = Verified(kind.iat)]
    /\ UNCHANGED <<feedVars, rateLimitStore, inflight, clock, dashboard>>

\* Minutes pass.
ClockTick ==
    /\ clock + ClockStep <= MaxClock
    /\ clock' = clock + ClockStep
    /\ UNCHANGED <<feedVars, rateLimitStore, inflight, signing, login, dashboard>>

NextLogin == LoginArrive \/ LoginVerify \/ LoginAnswer \/ ClockTick

InitLogin == Init /\ env = EnvAll /\ news_items = {}

SpecLogin == InitLogin /\ [][NextLogin]_vars

\* ------------------------------------------------- dashboard listing
\* queryFn of useNewsItems up to its await (at page load, every minute, and
\* at refetch()): the cutoff is computed and the query is sent; a query that
\* was under way is given up for the new one.
QueryIssued ==
    /\ dashboard' = [dashboard EXCEPT !.fetching = TRUE, !.cutoff = twelveHoursAgo(now)]
    /\ UNCHANGED <<feedVars, loginVars>>

\* queryFn after its await: the store answers the query from the rows it
\* holds now, and the page renders a card for each returned row; an error
\* leaves the page as it was.
QueryAnswered(outcomes) ==
    /\ dashboard.fetching
    /\ \E dbOk \in outcomes :
        dashboard' =
            IF dbOk
            THEN [dashboard EXCEPT
                    !.of = news_items,
                    !.cards = {NewsCard(row) : row \in useNewsItems(news_items, dashboard.cutoff)},
                    !.fetching = FALSE, !.cutoff = 0]
            ELSE [dashboard EXCEPT !.fetching = FALSE, !.cutoff = 0]
    /\ UNCHANGED <<feedVars, loginVars>>

\* The cleanups of the page that are under way, counted by their stage:
\* invoked (the request is on its way to delete-news), arrived (delete-news
\* has read {deleteAll: true}), deleted and failed (the answer is on its way
\* to the page); at most MaxCleanups at a time.
MaxCleanups == 2
CleanupCount == BagTotalOver(dashboard.cleanups, CleanupStages)
Moved(cleanups, from, to) == [cleanups EXCEPT ![from] = @ - 1, ![to] = @ + 1]

\* handleCleanup up to its await: delete-news is invoked with
\* {deleteAll: true}.  The handler has no condition of its own: it is the
\* confirm button of a dialog that stays usable when the listing changes.
CleanupBody == [deleteAll |-> TRUE, itemId |-> 0]
handleCleanup ==
    /\ CleanupCount < MaxCleanups
    /\ dashboard' = [dashboard EXCEPT !.cleanups["invoked"] = @ + 1]
    /\ UNCHANGED <<feedVars, loginVars>>

\* delete-news up to its delete: the request arrives and its body is read,
\* or the function is not reached.
CleanupArrive(outcomes) ==
    /\ dashboard.cleanups["invoked"] > 0
    /\ \E reached \in outcomes :
        dashboard' = [dashboard EXCEPT
                        !.cleanups = Moved(@, "invoked", IF reached THEN "arrived" ELSE "failed")]
    /\ UNCHANGED <<feedVars, loginVars>>

\* delete-news from its delete to its answer: every row the store holds now
\* is deleted, or the store fails and the answer is 500.
CleanupDelete(outcomes) ==
    /\ dashboard.cleanups["arrived"] > 0
    /\ \E dbOk \in outcomes :
        LET gone == Deleted(CleanupBody, dbOk)
        IN  /\ news_items' = news_items \ gone
            /\ removed' = removed \cup Removal(gone, "delete-news", now)
            /\ dashboard' = [dashboard EXCEPT
                    !.cleanups = Moved(@, "arrived", IF dbOk THEN "deleted" ELSE "failed")]
    /\ UNCHANGED <<now, env, nextRowId, rss_runs, loc, resp, obs, loginVars>>

\* handleCleanup after its await: on success the page calls refetch(), which
\* computes the cutoff and sends the query.
CleanupAnswered ==
    /\ \E stage \in {"deleted", "failed"} :
        /\ dashboard.cleanups[stage] > 0
        /\ dashboard' =
              IF stage = "deleted"
              THEN [dashboard EXCEPT !.cleanups[stage] = @ - 1, !.fetching = TRUE,
                                     !.cutoff = twelveHoursAgo(now)]
              ELSE [dashboard EXCEPT !.cleanups[stage] = @ - 1]
    /\ UNCHANGED <<feedVars, loginVars>>

\* One manual invocation, a run of one source or a retry of a stored row,
\* with the page querying and cleanups started at any moment.
BoardStores ==
    {{[id |-> 1, link |-> "a", response_text |-> <<"ok">>,
       processed_at |-> FirstHour - 1, published_at |-> DateAt(FirstHour - 2)]}}

NextBoard ==
    \/ Tick
    \/ StepStore(1)
    \/ QueryIssued
    \/ QueryAnswered(BOOLEAN)
    \/ handleCleanup
    \/ CleanupArrive(BOOLEAN)
    \/ CleanupDelete(BOOLEAN)
    \/ CleanupAnswered

InitBoard ==
    /\ now = FirstHour
    /\ env = EnvAll
    /\ news_items \in BoardStores
    /\ removed = {}
    /\ nextRowId = 2
    /\ rss_runs = {}
    /\ loc = [i \in Invs |-> InitLoc]
    /\ resp = [i \in Invs |-> NoResp]
    /\ obs = [i \in Invs |-> InitObs]
    /\ InitLoginVars
    /\ dashboard = NothingFetched

SpecBoard == InitBoard /\ [][NextBoard]_vars

\* ------------------------------------------------- feed documents
\* One manual run of one source whose feed document is any sequence of at
\* most MaxBlocks blocks: elements absent, plain or CDATA-wrapped, empty or
\* white space only.
MaxBlocks == 2

ParseTitles == {Absent(""), Plain("A"), Padded(CData("A")), CData("")}
ParseLinks == {Absent(""), Plain("a"), Padded(CData("b")), Plain(""), Padded(CData(""))}
ParseDates == {Absent(EmptyDate), Padded(Plain(DateAt(FirstHour))),
               CData(DateAt(FirstHour)), CData(EmptyDate)}
ParseBlocks ==
    {Block(Absent(""), l, Absent(EmptyDate)) : l \in ParseLinks}
        \cup {Block(t, Plain("a"), Absent(EmptyDate)) : t \in ParseTitles}
        \cup {Block(Plain("A"), Padded(CData("b")), d) : d \in ParseDates}

RECURSIVE SeqsUpTo(_, _)
SeqsUpTo(S, n) ==
    IF n = 0 THEN {<<>>}
    ELSE LET shorter == SeqsUpTo(S, n - 1)
         IN  shorter \cup {Append(q, x) : q \in shorter, x \in S}

ParseFeedOutcomes == {[status |-> 200, body |-> d] : d \in SeqsUpTo(ParseBlocks, MaxBlocks)}
ParseRequests == {[EmptyBody EXCEPT !.hasSources = TRUE, !.sources = <<"nius">>]}
ParseWebhookOutcomes ==
    {[status |-> 200, body |-> ObjectBody(<<"{\"output\":\"ok\"}">>, Str(<<"ok">>))]}

StepParse(i) ==
    \/ Receive(i, TextTokens, ParseRequests)
    \/ Authorize(i)
    \/ LogRunStart(i, {TRUE})
    \/ Snapshot(i, {TRUE})
    \/ FetchFeed(i, ParseFeedOutcomes)
    \/ PostPrimary(i, ParseWebhookOutcomes)
    \/ InsertItem(i, {TRUE})
    \/ LogRunFinish(i, {TRUE})
    \/ Respond(i)

NextParse == StepParse(1)

InitParse == Init /\ env = EnvAll /\ news_items = {}

SpecParse == InitParse /\ [][NextParse]_vars

\* ----------------------------------------------------- claims: vocabulary

Accepted(i) == pc(i) \notin {"idle", "authorizing", "rejected"}
Finished(i) == pc(i) \in {"logRunFinish", "respond", "done"}
IsRetry(i) == loc[i].options.retryItem # NoRetry
Configured(i) ==
    \/ loc[i].options.webhookMode = "test" /\ env.WEBHOOK_URL_TEST
    \/ loc[i].options.webhookMode # "test" /\ env.WEBHOOK_URL_PRODUCTION
HasRunRecord(i) == \E row \in rss_runs : row.id = i
NoOutbound(i) ==
    /\ obs[i].feedFetches = <<>>
    /\ BagTotal(obs[i].primaryPosts) = 0
    /\ obs[i].teamsPosts = {}
NothingBegun(i) ==
    /\ NoOutbound(i)
    /\ obs[i].ledgerInserts = 0
    /\ obs[i].ledgerUpdates = 0
    /\ obs[i].storeReads = 0
    /\ obs[i].storeWrites = 0
    /\ ~HasRunRecord(i)

\* C1: in a normal run a row is inserted for a link only after the primary
\* webhook answered that link with an HTTP success status in that run; the
\* run counts no more processed items than it had successful deliveries, and
\* a run that made deliveries ends with success: true.
C1_RowOnlyAfterDelivery ==
    \A i \in Invs : ~IsRetry(i) =>
        /\ \A L \in obs[i].insertTried : obs[i].delivered[L] >= 1
        /\ \A L \in obs[i].inserted : obs[i].delivered[L] >= 1
        /\ loc[i].totalProcessed + loc[i].processedCount <= BagTotal(obs[i].delivered)
        /\ (Finished(i) /\ BagTotal(obs[i].primaryPosts) > 0) =>
                /\ loc[i].result.kind = "run"
                /\ loc[i].result.success
                /\ loc[i].result.processed <= BagTotal(obs[i].delivered)
        /\ (pc(i) = "done" /\ ~loc[i].isCron /\ BagTotal(obs[i].primaryPosts) > 0) =>
                /\ resp[i].status = 200
                /\ resp[i].body.success
                /\ resp[i].body.processed <= BagTotal(obs[i].delivered)

\* C1 witness: a manual run whose only delivery failed has ended: no row for
\* the link, processed 0, success true.
C1_Witness ==
    \E i \in Invs, L \in Links :
        /\ pc(i) = "done" /\ ~loc[i].isCron /\ ~IsRetry(i)
        /\ obs[i].primaryPosts[L] >= 1 /\ obs[i].delivered[L] = 0
        /\ L \notin StoredLinks
        /\ resp[i].status = 200 /\ resp[i].body.success /\ resp[i].body.processed = 0

\* C2: a run makes no primary POST, no secondary POST and no insert for a
\* link that is in the snapshot of stored links it loaded.
C2_SnapshotLinksSkipped ==
    \A i \in Invs : \A L \in obs[i].snapshot :
        /\ obs[i].primaryPosts[L] = 0
        /\ L \notin obs[i].teamsPosts
        /\ L \notin obs[i].insertTried

\* C2 witness: a run has ended whose feed offered a recent item with a link
\* of its snapshot.
C2_Witness ==
    \E i \in Invs :
        /\ pc(i) = "done" /\ loc[i].result.kind = "run"
        /\ obs[i].snapshot \cap obs[i].offered # {}

\* C5: on the interactive tier a missing token, a token with an invalid
\* signature and a token whose exp is earlier than the time of the check are
\* answered 401, and a rejected invocation has inserted no run record, fetched
\* no feed, POSTed to no webhook and not touched the article store.
BadToken(token, t) ==
    \/ token.segs = 0
    \/ token.segs # 3
    \/ token.sig # hmac(ServiceRoleKey, token.payload)
    \/ token.payload.json /\ token.payload.exp < t

C5_RejectStep ==
    \A i \in Invs :
        (/\ pc(i) = "authorizing" /\ loc'[i].pc # "authorizing"
         /\ ~loc'[i].isCron
         /\ BadToken(loc[i].token, now))
        => /\ loc'[i].pc = "rejected"
           /\ resp'[i].status = 401
           /\ news_items' = news_items /\ rss_runs' = rss_runs

C5_RejectedBeforeProcessing ==
    /\ [](\A i \in Invs : pc(i) = "rejected" => resp[i].status = 401 /\ NothingBegun(i))
    /\ [][C5_RejectStep]_vars

\* C5 witness: an issued token, validly signed, was rejected because it had expired.
C5_Witness ==
    \E i \in Invs :
        /\ pc(i) = "rejected" /\ loc[i].token \in ExpiringAppTokens
        /\ resp[i] = InvalidToken

\* C6: an invocation is handled on the cron tier only when its token is a
\* system-issued key, and a token that the system did not issue and that does
\* not verify under the signing secret never starts a run.
C6_CronOnlyForSystemKey ==
    \A i \in Invs :
        /\ loc[i].isCron => SystemIssued(loc[i].token)
        /\ Accepted(i) =>
              \/ SystemIssued(loc[i].token)
              \/ loc[i].token.sig = hmac(ServiceRoleKey, loc[i].token.payload)

C8_RunContinues ==
    \A i \in Invs :
        /\ (Finished(i) /\ obs[i].feedFetches # <<>>) => loc[i].result.kind = "run"
        /\ loc[i].result.kind = "run" =>
                /\ loc[i].result.success
                /\ obs[i].feedFetches = loc[i].options.enabledSources
        /\ (pc(i) = "done" /\ ~loc[i].isCron /\ loc[i].result.kind = "run") =>
                resp[i].status = 200 /\ resp[i].body.success

\* C8: every enabled source whose feed request failed in the run (error
\* status, network error, timeout) is reported as {processed: 0, total: 0},
\* every enabled source is still fetched, in order, and the run ends with
\* success: true.
C8_SourceFailureIsolated ==
    /\ C8_RunContinues
    /\ \A i \in Invs : loc[i].result.kind = "run" =>
            \A k \in obs[i].feedFailed :
                loc[i].result.sources[k] = [set |-> TRUE, processed |-> 0, total |-> 0]

\* C9: a cron invocation has been answered {success: true, accepted: true}
\* from the moment it is accepted, before its run record is inserted, and the
\* response stays that whatever the background run does.
C9_CronAnsweredFirst ==
    \A i \in Invs : loc[i].isCron =>
        /\ resp[i] = CronAccepted
        /\ pc(i) = "logRunStart" => obs[i].ledgerInserts = 0 /\ ~HasRunRecord(i)
        /\ ~Finished(i) => \A row \in rss_runs : row.id = i => ~row.finished

\* C9 witness: a cron run has ended by an exception and its answer is the
\* accepted one.
C9_Witness ==
    \E i \in Invs :
        /\ loc[i].isCron /\ pc(i) = "done" /\ loc[i].result.kind = "throw"
        /\ resp[i] = CronAccepted

\* C10 as stated: an accepted invocation has exactly one run record from the
\* start of processing on, and that record has had its finish update once the
\* invocation is over.
C10_ExactlyOneRecord ==
    \A i \in Invs :
        /\ pc(i) = "rejected" => ~HasRunRecord(i)
        /\ (Accepted(i) /\ pc(i) # "logRunStart") => HasRunRecord(i)
        /\ pc(i) = "done" => \A row \in rss_runs : row.id = i => row.finished

\* C10, amended: a rejected invocation creates no run record; an accepted one
\* issues exactly one run-record insert before processing starts, which
\* creates at most one record (none when the store refuses it); after
\* processing ends it issues exactly one finish update if the insert gave an
\* id and none otherwise; a manual call is answered only after that.
C10_Positions ==
    \A i \in Invs :
        /\ pc(i) = "idle" => loc'[i].pc \in {"idle", "authorizing"}
        /\ pc(i) = "authorizing" => loc'[i].pc \in {"authorizing", "rejected", "logRunStart"}
        /\ pc(i) = "rejected" => loc'[i].pc = "rejected"
        /\ Finished(i) => loc'[i].pc \in {"logRunFinish", "respond", "done"}

C10_LedgerInv ==
    \A i \in Invs :
        /\ pc(i) \in {"idle", "authorizing", "rejected", "logRunStart"} => NothingBegun(i)
        /\ (Accepted(i) /\ pc(i) # "logRunStart") =>
                /\ obs[i].ledgerInserts = 1
                /\ HasRunRecord(i) <=> loc[i].runId # 0
        /\ Cardinality({row \in rss_runs : row.id = i}) <= 1
        /\ pc(i) \notin {"respond", "done"} =>
                /\ obs[i].ledgerUpdates = 0
                /\ \A row \in rss_runs : row.id = i => ~row.finished
        /\ pc(i) \in {"respond", "done"} =>
                obs[i].ledgerUpdates = IF loc[i].runId # 0 THEN 1 ELSE 0
        /\ (~loc[i].isCron /\ resp[i] # NoResp) => pc(i) \in {"rejected", "done"}

C10_RunRecordLifecycle == []C10_LedgerInv /\ [][C10_Positions]_vars

\* C10 witness: a manual call whose run record was inserted and finished has
\* been answered.
C10_Witness ==
    \E i \in Invs :
        /\ ~loc[i].isCron /\ pc(i) = "done" /\ resp[i].status = 200
        /\ \E row \in rss_runs : row.id = i /\ row.finished
        /\ obs[i].ledgerInserts = 1 /\ obs[i].ledgerUpdates = 1

\* ------------------------------------------- claims about successive runs
Before(i, j) == i # j /\ i \in obs[j].after
SnapshotTaken(j) ==
    pc(j) \in {"fetch", "post", "teams", "insert"} \/ loc[j].result.kind = "run"

\* C3: a run that starts after another has ended finds every link that the
\* earlier one stored in its snapshot, makes no primary POST and no insert for
\* it, and counts as processed only what it inserted itself.
C3_SecondRunSkipsStored ==
    \A i \in Invs, j \in Invs : (Before(i, j) /\ SnapshotTaken(j)) =>
        /\ \A L \in obs[i].inserted :
                /\ L \in obs[j].snapshot
                /\ obs[j].primaryPosts[L] = 0
                /\ L \notin obs[j].insertTried
        /\ loc[j].result.kind = "run" =>
                loc[j].result.processed = Cardinality(obs[j].inserted)

\* C3 witness: the second of two runs was offered a link that the first had
\* stored and has ended without a POST for it.
C3_Witness ==
    \E i \in Invs, j \in Invs, L \in Links :
        /\ Before(i, j) /\ L \in obs[i].inserted /\ L \in obs[j].offered
        /\ pc(j) = "done" /\ loc[j].result.kind = "run"
        /\ obs[j].primaryPosts[L] = 0

\* C4: a link whose deliveries all failed in a run is not stored by that
\* run, and a later run whose feed offers it, still recent, and whose
\* snapshot does not hold it, POSTs it to the primary webhook again.
C4_FailedItemAttemptedAgain ==
    \A i \in Invs, L \in Links :
        (obs[i].primaryPosts[L] >= 1 /\ obs[i].delivered[L] = 0 /\ ~IsRetry(i)) =>
            /\ L \notin obs[i].inserted
            /\ \A j \in Invs :
                (/\ Before(i, j) /\ loc[j].result.kind = "run"
                 /\ L \in obs[j].offered /\ L \notin obs[j].snapshot)
                => obs[j].primaryPosts[L] >= 1

\* C4 witness: a link failed in one run and was POSTed again by the next.
C4_Witness ==
    \E i \in Invs, j \in Invs, L \in Links :
        /\ Before(i, j)
        /\ obs[i].primaryPosts[L] >= 1 /\ obs[i].delivered[L] = 0
        /\ pc(j) = "done" /\ obs[j].primaryPosts[L] >= 1

\* ------------------------------------------- claims about response texts
RetryLink(i) == loc[i].options.retryItem.link
RetryRows(i) == {row \in news_items : row.id = loc[i].options.retryItem.id}
TeamsConfigured(i) ==
    \/ loc[i].options.teamsMode = "test" /\ env.TEAMS_WEBHOOK_TEST
    \/ loc[i].options.teamsMode # "test" /\ env.TEAMS_WEBHOOK_PRODUCTION

\* C11: a retry whose primary webhook answered with an HTTP success status is
\* answered {success: true, message: "Retry successful"} whatever the body
\* was, and the retried row carries the text of that response.
C11_RetrySuccessReported ==
    \A i \in Invs :
        (IsRetry(i) /\ ~loc[i].isCron /\ pc(i) = "done"
            /\ obs[i].delivered[RetryLink(i)] >= 1) =>
                /\ resp[i].status = 200
                /\ resp[i].body.success
                /\ resp[i].body.message = "Retry successful"
                /\ \A row \in RetryRows(i) : row.response_text = resp[i].body.response_text

\* C12: after a retry whose primary delivery failed (error status, network
\* error or timeout) the retried row carries the failure text.
C12_RetryFailurePersisted ==
    \A i \in Invs :
        (IsRetry(i) /\ Finished(i) /\ obs[i].storeFailed = {}
            /\ obs[i].primaryPosts[RetryLink(i)] >= 1
            /\ obs[i].delivered[RetryLink(i)] = 0) =>
                \A row \in RetryRows(i) : startsWith(row.response_text, "Webhook error:")

\* C13: a secondary POST is made only for a link whose primary delivery
\* succeeded, and, with the secondary notification enabled and configured, it
\* is made after every successful primary delivery, of a new item or of a retry.
C13_SecondaryAfterEverySuccess ==
    \A i \in Invs, L \in Links :
        /\ L \in obs[i].teamsPosts => obs[i].delivered[L] >= 1
        /\ (/\ Finished(i) /\ obs[i].delivered[L] >= 1
            /\ loc[i].options.teamsEnabled /\ TeamsConfigured(i))
           => L \in obs[i].teamsPosts

\* C14: the outcome of a secondary POST (success, error status, network error,
\* timeout) changes nothing but the log: the step leaves the item, its text,
\* the store, the ledger and the response as they were and goes on to the
\* insert, so every item that was notified, successfully or not, is inserted
\* and counted.
C14_TeamsStep ==
    \A i \in Invs :
        (pc(i) = "teams" /\ loc'[i] # loc[i]) =>
            /\ loc'[i] = [loc[i] EXCEPT !.pc = "insert", !.processedAt = now]
            /\ news_items' = news_items
            /\ rss_runs' = rss_runs
            /\ resp' = resp

C14_TeamsInv ==
    \A i \in Invs :
        /\ \A L \in obs[i].teamsPosts :
              \/ L \in obs[i].inserted
              \/ pc(i) = "insert" /\ ItemOf(loc[i]).link = L
        /\ loc[i].result.kind = "run" =>
              loc[i].result.processed = Cardinality(obs[i].inserted)

C14_SecondaryFailureSwallowed == []C14_TeamsInv /\ [][C14_TeamsStep]_vars

\* C14 witness: a run whose secondary POST for a link failed has stored the
\* link and has answered with it counted.
C14_Witness ==
    \E i \in Invs, L \in Links :
        /\ pc(i) = "done" /\ L \in obs[i].teamsFailed /\ L \in obs[i].inserted
        /\ L \in StoredLinks
        /\ resp[i].status = 200 /\ resp[i].body.success /\ resp[i].body.processed >= 1

\* ------------------------------------------------- claims about failures
AbortingFailure(i) == obs[i].storeFailed \cap {"select", "update"} # {}

\* C15 as stated: any failure of the article store (select, insert, update)
\* ends the run with an exception: 500 for a manual call, a run record with
\* success false for a cron call.
C15_AnyStoreFailureAborts ==
    \A i \in Invs : (Finished(i) /\ obs[i].storeFailed # {}) =>
        /\ loc[i].result.kind = "throw"
        /\ (pc(i) = "done" /\ ~loc[i].isCron) => resp[i].status = 500

\* C15, amended: a failed snapshot select or retry update ends the run with an
\* exception, answered 500 on the interactive path and, on the cron path,
\* written with success false and the error text by the finish update of the
\* run record; a failed insert of a new item is only logged: the item is not
\* counted and the run goes on.
C15_SelectOrUpdateFailureAborts ==
    \A i \in Invs :
        /\ (Finished(i) /\ AbortingFailure(i)) =>
              /\ loc[i].result.kind = "throw"
              /\ "select" \in obs[i].storeFailed => NoOutbound(i)
              /\ (pc(i) = "done" /\ ~loc[i].isCron) =>
                    resp[i].status = 500 /\ ~resp[i].body.success
              /\ (pc(i) = "done" /\ loc[i].isCron) =>
                    /\ resp[i] = CronAccepted
                    /\ \A row \in rss_runs : (row.id = i /\ row.finished) =>
                          ~row.success /\ row.error # "" /\ row.processed = 0
        /\ (Finished(i) /\ obs[i].storeFailed = {"insert"}) =>
              /\ loc[i].result.kind = "run"
              /\ loc[i].result.success
        /\ loc[i].result.kind = "run" =>
              loc[i].result.processed = Cardinality(obs[i].inserted)

\* C15 witness: a cron run whose snapshot select failed has its run record
\* finished with success false.
C15_Witness ==
    \E i \in Invs :
        /\ loc[i].isCron /\ pc(i) = "done" /\ "select" \in obs[i].storeFailed
        /\ \E row \in rss_runs : row.id = i /\ row.finished /\ ~row.success

\* C16 as stated: with the primary endpoint of the selected mode not
\* configured nothing is fetched, POSTed, read or written, and the invocation
\* is answered with a 500-class response.
C16_UnconfiguredAnswered500 ==
    \A i \in Invs : (Accepted(i) /\ pc(i) # "logRunStart" /\ ~Configured(i)) =>
        /\ NoOutbound(i)
        /\ obs[i].storeReads = 0 /\ obs[i].storeWrites = 0
        /\ pc(i) = "done" => resp[i].status = 500

\* C16, amended: with the primary endpoint of the selected mode not
\* configured the run fails at once with "Webhook URL not configured": nothing
\* is fetched, POSTed, read or written; a manual call is answered 500, a cron
\* call keeps its accepted answer and the failure goes to the run record.
C16_UnconfiguredIsFatal ==
    \A i \in Invs : (Accepted(i) /\ pc(i) # "logRunStart" /\ ~Configured(i)) =>
        /\ NoOutbound(i)
        /\ obs[i].storeReads = 0 /\ obs[i].storeWrites = 0
        /\ news_items \in InitStores
        /\ Finished(i)
        /\ loc[i].result.kind = "throw"
        /\ loc[i].result.error = "Webhook URL not configured"
        /\ (pc(i) = "done" /\ ~loc[i].isCron) =>
              /\ resp[i].status = 500
              /\ resp[i].body.error = "Webhook URL not configured"
        /\ loc[i].isCron =>
              /\ resp[i] = CronAccepted
              /\ pc(i) = "done" =>
                    \A row \in rss_runs : (row.id = i /\ row.finished) =>
                        ~row.success /\ row.error = "Webhook URL not configured"

\* C16 witness: a manual call for the test mode, whose endpoint is not
\* configured, has been answered 500.
C16_Witness ==
    \E i \in Invs :
        /\ pc(i) = "done" /\ ~loc[i].isCron /\ ~Configured(i)
        /\ loc[i].options.webhookMode = "test"
        /\ resp[i].status = 500

\* ----------------------------------------------- claims about result texts
\* The text of a successful response that is about to be notified or written.
TextPending(i) ==
    /\ pc(i) \in {"teams", "insert", "retryUpdate"}
    /\ obs[i].pendingBody # NoBody
HasOutputField(body) ==
    body.shape \in {"object", "array"} /\ body.output # Undefined
HasTruthyOutput(body) ==
    /\ HasOutputField(body)
    /\ body.output \notin {Null, Str(<<>>), Num(0)}

\* C17 as stated: the result text is the value of the output field whenever
\* the parsed body (or the first element of a parsed array) has one, whatever
\* the value, and the raw body otherwise.
C17_OutputFieldAlwaysUsed ==
    \A i \in Invs : TextPending(i) =>
        loc[i].responseText =
            IF HasOutputField(obs[i].pendingBody) THEN obs[i].pendingBody.output
            ELSE Str(obs[i].pendingBody.raw)

\* C17, amended: the result text is the value of the output field when that
\* value is truthy (not "", 0 or null), and the raw body text otherwise; the
\* row of a new item is written with the text of its result, and counted.
C17_InsertStep ==
    \A i \in Invs :
        (pc(i) = "insert" /\ news_items' # news_items) =>
            /\ \E id \in 1..nextRowId, published \in {NoDate, ItemOf(loc[i]).pubDate} :
                  news_items' = news_items \cup
                      {[id |-> id, link |-> ItemOf(loc[i]).link,
                        response_text |-> loc[i].responseText.s,
                        processed_at |-> loc[i].processedAt,
                        published_at |-> published]}
            /\ IsString(loc[i].responseText)
            /\ loc'[i].totalProcessed + loc'[i].processedCount
                  = loc[i].totalProcessed + loc[i].processedCount + 1

C17_TextInv ==
    \A i \in Invs : TextPending(i) =>
        loc[i].responseText =
            IF HasTruthyOutput(obs[i].pendingBody) THEN obs[i].pendingBody.output
            ELSE Str(obs[i].pendingBody.raw)

C17_TruthyOutputUsed == []C17_TextInv /\ [][C17_InsertStep]_vars

\* C17 witness: a run has stored a new item with the text "ok" of the body
\* {"output":"ok"} and has answered with the item counted.
C17_Witness ==
    \E i \in Invs, row \in news_items :
        /\ pc(i) = "done" /\ row.link \in obs[i].inserted
        /\ row.response_text = <<"ok">>
        /\ resp[i].status = 200 /\ resp[i].body.processed >= 1

\* --------------------------------------------- claims about the recency filter
FilterDates ==
    {NoDate} \cup {DateAt(t) : t \in (FirstHour - RECENCY_HOURS - 1)..(LastHour - RECENCY_HOURS + 1)}

\* C18: the recency filter is true for an item without a publish date, and for
\* a dated item exactly when the date is at or after (now - 12 hours): the
\* boundary is included, anything earlier is excluded.  In a run, exactly the
\* unstored items that pass it are POSTed to the primary webhook.
C18_RecencyInclusive ==
    /\ \A d \in FilterDates :
          isArticleWithin12Hours(d, now) <=>
              (d.kind = "none" \/ (d.kind = "date" /\ d.t >= now - 12))
    /\ \A i \in Invs, L \in Links : ~IsRetry(i) =>
          /\ obs[i].primaryPosts[L] >= 1 => L \in obs[i].offered
          /\ (loc[i].result.kind = "run" /\ L \in obs[i].offered
                /\ L \notin obs[i].snapshot) => obs[i].primaryPosts[L] >= 1

\* C18 witness: the item dated exactly twelve hours before the fetch was
\* POSTed to the primary webhook.
C18_Witness ==
    \E i \in Invs :
        /\ now = FirstHour /\ ~IsRetry(i)
        /\ DateOf(ItemB) = DateAt(now - 12)
        /\ obs[i].primaryPosts[LinkOf(ItemB)] >= 1

\* C19: an item whose date text is no date passes the recency filter, so a
\* completed run has POSTed every such item whose link was not stored.
C19_UnparseableIncluded ==
    \A i \in Invs, L \in Links :
        (loc[i].result.kind = "run" /\ L \in obs[i].badDated
            /\ L \notin obs[i].snapshot) => obs[i].primaryPosts[L] >= 1

\* ------------------------------------------------- claims about removal
RowIds(rows) == {row.id : row \in rows}

\* C20 as stated: a row leaves the store only by an explicit deletion request.
C20_OnlyExplicitDeletion ==
    \A r \in removed : r.by = "delete-news"

\* C20, amended: a row leaves the store only by a delete-news request or by
\* the hourly cleanup job, which deletes the rows whose processed_at is more
\* than 24 hours old; no step of a check-rss invocation, run or retry,
\* removes a row.
C20_RemovalStep ==
    /\ \A id \in RowIds(news_items) \ RowIds(news_items') :
          \E r \in removed' \ removed : r.id = id /\ r.at = now
    /\ loc' # loc => RowIds(news_items) \subseteq RowIds(news_items')

C20_RemovedInv ==
    \A r \in removed :
        /\ r.by \in {"delete-news", "cleanup"}
        /\ r.by = "cleanup" => r.processed_at < r.at - 24
        /\ r.at <= now

C20_DeletionOrCleanupOnly == []C20_RemovedInv /\ [][C20_RemovalStep]_vars

\* C20 witness: the cleanup job has removed a row that no deletion request
\* had named, while a row that a run stored is kept.
C20_Witness ==
    /\ \E r \in removed : r.by = "cleanup"
    /\ \A r \in removed : r.by # "delete-news"
    /\ \E i \in Invs : obs[i].inserted # {} /\ obs[i].inserted \subseteq StoredLinks

\* ------------------------------------------------- claims about the ledger
LedgerStartFailed(i) == obs[i].ledgerInserts = 1 /\ ~HasRunRecord(i)

\* C21: the run ledger is best-effort.  Whether or not logRunStart stored a
\* record, processing starts at the same place (unconfigured, retry, closed
\* or snapshot, as the request, the configuration and the hour decide) and
\* the step touches nothing but the ledger; logRunFinish keeps the result,
\* the article store and the response, and writes nothing without a run id;
\* the response of a manual call is the result (500 exactly when processing
\* threw), so no ledger failure turns a run into a failure.
C21_LedgerStep ==
    \A i \in Invs :
        /\ (pc(i) = "logRunStart" /\ loc'[i].pc # "logRunStart") =>
              /\ loc'[i].pc =
                    IF ~Configured(i) THEN "logRunFinish"
                    ELSE IF IsRetry(i) THEN "retryPost"
                    ELSE IF ~InHours(now) THEN "logRunFinish"
                    ELSE "snapshot"
              /\ loc'[i].result.kind =
                    IF ~Configured(i) THEN "throw"
                    ELSE IF IsRetry(i) THEN "none"
                    ELSE IF ~InHours(now) THEN "closed"
                    ELSE "none"
              /\ news_items' = news_items /\ resp' = resp
              /\ [obs'[i] EXCEPT !.ledgerInserts = 0] = [obs[i] EXCEPT !.ledgerInserts = 0]
        /\ (pc(i) = "logRunFinish" /\ loc'[i].pc # "logRunFinish") =>
              /\ loc'[i].result = loc[i].result
              /\ news_items' = news_items /\ resp' = resp
              /\ ~HasRunRecord(i) => rss_runs' = rss_runs
        /\ (pc(i) = "respond" /\ loc'[i].pc = "done") =>
              resp'[i] = IF loc[i].result.kind = "throw"
                         THEN Resp(500, [NoResult EXCEPT !.kind = "error",
                                                         !.error = loc[i].result.error])
                         ELSE Resp(200, loc[i].result)

C21_LedgerInv ==
    \A i \in Invs :
        /\ (LedgerStartFailed(i) /\ pc(i) \in {"respond", "done"}) =>
              obs[i].ledgerUpdates = 0
        /\ (Finished(i) /\ loc[i].result.kind = "throw") =>
              \/ ~Configured(i)
              \/ AbortingFailure(i)
              \/ IsRetry(i) /\ BagTotal(obs[i].primaryPosts) = 1

C21_LedgerBestEffort == []C21_LedgerInv /\ [][C21_LedgerStep]_vars

\* C21 witness: a manual run whose run record could not be inserted has
\* stored a row and has been answered 200 with success true.
C21_Witness ==
    \E i \in Invs :
        /\ pc(i) = "done" /\ ~loc[i].isCron /\ LedgerStartFailed(i)
        /\ obs[i].inserted # {}
        /\ resp[i].status = 200 /\ resp[i].body.success /\ resp[i].body.processed >= 1

\* ------------------------------------------------- claims about the parser
\* The blocks of a document that carry a link, in document order.
RECURSIVE LinkedBlocks(_)
LinkedBlocks(doc) ==
    IF doc = <<>> THEN <<>>
    ELSE (IF LinkOf(Head(doc)) # "" THEN <<Head(doc)>> ELSE <<>>)
            \o LinkedBlocks(Tail(doc))

TitleOf(blk) == IF blk.title.form = "absent" THEN "" ELSE blk.title.core

\* C22: parseRSS returns, for every document, one item for each block that
\* has a non-empty link, in document order; the item carries that link, the
\* block's title or the empty title when it has none, and the block's date
\* text or a null date when it has no date element, whether the elements are
\* plain or CDATA-wrapped.  No document makes the source fail, and the run
\* counts the parsed items in total_in_feed and sources.
C22_ParseTotal ==
    \A i \in Invs :
        LET doc == obs[i].doc
            blocks == LinkedBlocks(doc)
            items == parseRSS(doc)
        IN  /\ DOMAIN items = 1..Len(blocks)
            /\ \A k \in 1..Len(blocks) :
                  /\ items[k].link = LinkOf(blocks[k])
                  /\ items[k].title = TitleOf(blocks[k])
                  /\ items[k].pubDate =
                        IF blocks[k].pubDate.form = "absent" THEN NoDate
                        ELSE blocks[k].pubDate.core
            /\ obs[i].feedFetches # <<>> =>
                  /\ obs[i].feedFailed = {}
                  /\ loc[i].totalInFeed = Len(blocks)
            /\ pc(i) \in {"post", "insert"} =>
                  /\ loc[i].total = Len(blocks)
                  /\ \A k \in 1..Len(loc[i].newItems) :
                        \E n \in 1..Len(blocks) :
                            /\ loc[i].newItems[k].link = LinkOf(blocks[n])
                            /\ loc[i].newItems[k].title = TitleOf(blocks[n])
            /\ (pc(i) = "done" /\ obs[i].feedFetches # <<>>) =>
                  /\ resp[i].status = 200
                  /\ resp[i].body.total_in_feed = Len(blocks)
                  /\ resp[i].body.sources["nius"].total = Len(blocks)

\* C22 witness: a run has ended whose document had a block without a link
\* element and a block with a CDATA-wrapped link and no title: one item was
\* counted.
C22_Witness ==
    \E i \in Invs :
        /\ pc(i) = "done" /\ Len(obs[i].doc) = 2
        /\ \E n \in 1..2 : obs[i].doc[n].link.form = "absent"
        /\ \E n \in 1..2 : /\ obs[i].doc[n].link.form = "cdata"
                           /\ obs[i].doc[n].title.form = "absent"
        /\ resp[i].body.total_in_feed = 1
        /\ obs[i].inserted = {"b"}

\* ------------------------------------------------- claims about one run
\* C23: within one run, a link whose row the run inserted while it processed
\* one source gets no primary POST and no insert while a later source is
\* processed, and the run's set of known links is the snapshot together with
\* the links whose insert succeeded.
C23_LaterStep ==
    \A i \in Invs : \A L \in obs[i].insertedEarlier :
        /\ obs'[i].primaryPosts[L] = obs[i].primaryPosts[L]
        /\ obs'[i].storeWrites > obs[i].storeWrites => ItemOf(loc[i]).link # L

C23_KnownLinksInv ==
    \A i \in Invs :
        /\ pc(i) \in {"fetch", "post", "teams", "insert"} =>
              loc[i].existingLinks = obs[i].snapshot \cup obs[i].inserted
        /\ obs[i].insertedEarlier \subseteq obs[i].inserted
        /\ pc(i) \in {"post", "teams", "insert"} =>
              ItemOf(loc[i]).link \notin obs[i].insertedEarlier
        /\ obs[i].inserted \subseteq StoredLinks

C23_InsertedLinkExcludedLater == []C23_KnownLinksInv /\ [][C23_LaterStep]_vars

\* C23 witness: a run of two sources has ended; it stored link a while it
\* processed the first, the second source's document offered a again, and a
\* was POSTed once.
C23_Witness ==
    \E i \in Invs :
        /\ pc(i) = "done" /\ Len(obs[i].feedFetches) = 2
        /\ "a" \in obs[i].insertedEarlier
        /\ "a" \in Offered(obs[i].doc, now)
        /\ obs[i].primaryPosts["a"] = 1

\* C24: within one run the primary webhook gets at most one POST for each
\* link, also when a feed document carries the link twice or the request
\* lists a source key twice.
C24_OnePostPerLink ==
    \A i \in Invs : ~IsRetry(i) =>
        \A L \in Links : obs[i].primaryPosts[L] <= 1

\* ------------------------------------------------- claims about overlapping runs
Overlap(i, j) == i # j /\ Accepted(i) /\ Accepted(j) /\ i \notin obs[j].after /\ j \notin obs[i].after

\* C25: two runs that overlap in time never both POST the same link to the
\* primary webhook and never both notify the secondary webhook of it.
C25_OverlappingRunsDisjoint ==
    \A i, j \in Invs : Overlap(i, j) =>
        \A L \in Links :
            /\ ~(obs[i].primaryPosts[L] >= 1 /\ obs[j].primaryPosts[L] >= 1)
            /\ ~(L \in obs[i].teamsPosts /\ L \in obs[j].teamsPosts)

\* ------------------------------------------------- claims about retries
\* C26: after a manual retry that was answered success: true the store holds a row
\* with the requested id whose response_text is the one of the response, and
\* a retry leaves the number of rows and every other row as they were.
C26_RetrySuccessStored ==
    \A i \in Invs : (pc(i) = "done" /\ IsRetry(i) /\ ~loc[i].isCron) =>
        /\ (resp[i].status = 200 /\ resp[i].body.success) =>
              \E row \in news_items :
                  /\ row.id = loc[i].options.retryItem.id
                  /\ row.response_text = resp[i].body.response_text
        /\ obs[i].inserted = {}

\* ------------------------------------------------- claims about the response
ReportedProcessed(result) ==
    BagTotal([k \in DOMAIN result.sources |-> IF result.sources[k].set
                                   THEN result.sources[k].processed ELSE 0])
ReportedTotal(result) ==
    BagTotal([k \in DOMAIN result.sources |-> IF result.sources[k].set
                                   THEN result.sources[k].total ELSE 0])

\* C27: in the response of a normal run, processed is the sum of the
\* reported sources' processed counts, total_in_feed is the sum of their
\* totals, and processed is the number of rows the run inserted, whatever
\* list of sources the caller sent.
C27_TotalsAreSums ==
    \A i \in Invs :
        (pc(i) = "done" /\ ~loc[i].isCron /\ resp[i].status = 200
            /\ resp[i].body.kind = "run") =>
            /\ resp[i].body.processed = ReportedProcessed(resp[i].body)
            /\ resp[i].body.total_in_feed = ReportedTotal(resp[i].body)
            /\ resp[i].body.processed = Cardinality(obs[i].inserted)

\* ------------------------------------------------- claims about the login limit
\* C28: a client's recorded failed attempts never exceed MAX_ATTEMPTS, and no
\* client gets more than that many failed password comparisons between two
\* resets of its record, also when its requests are handled concurrently.
C28_AttemptsBounded ==
    \A ip \in ClientIds :
        /\ rateLimitStore[ip].attempts <= 5
        /\ login.failed[ip] <= 5

\* The lock that was set for the client has not yet lasted fifteen minutes, or
\* the client has five recorded failed attempts and no lock yet.
Barred(ip) ==
    \/ login.lockSetAt[ip] # 0 /\ Minute < login.lockSetAt[ip] + 15
    \/ rateLimitStore[ip].attempts >= 5 /\ rateLimitStore[ip].lockedUntil = 0

\* C29: from the moment a client has five recorded failed attempts until its
\* lockout has lasted fifteen minutes, no further request of the client gets
\* past the rate-limit check, whatever its password: it is answered 429 with
\* a positive retryAfter, and no attempt is recorded for it; the comparison
\* of a right password leaves the client without a record.
C29_BarredStep ==
    \A ip \in ClientIds :
        /\ Barred(ip) =>
              \A kind \in InflightKinds :
                  kind.ip = ip => inflight'[kind] <= inflight[kind]
        /\ (\E kind \in SigningKinds : kind.ip = ip /\ signing'[kind] > signing[kind]) =>
              ~rateLimitStore'[ip].present

C29_AnswerInv == login.last.status = 429 => login.last.retryAfter > 0

C29_LockoutHolds == []C29_AnswerInv /\ [][C29_BarredStep]_vars

\* ------------------------------------------------- claims about the dashboard
\* C30: every stored article whose response_text begins with the sentinel
\* "Webhook error:" is listed by the dashboard with the error mark and the
\* retry button.
C30_ErrorRowsListed ==
    \A row \in dashboard.of :
        startsWith(row.response_text, "Webhook error:") =>
            \E card \in dashboard.cards :
                card.id = row.id /\ card.hasError /\ card.retry

====
